---- MODULE Spec2Model ----
(***************************************************************************)
(* A model of vtjson (src/vtjson.py): schema descriptions are objects of a *)
(* heap, compile() is a machine with an explicit call stack that lowers a  *)
(* description into compiled nodes through the cache of deferred compiles, *)
(* and __validate__ is a recursive operator over the compiled nodes.       *)
(***************************************************************************)
EXTENDS Integers, Sequences, FiniteSets, TLC

VARIABLES
    heap,      \* the schema description objects: identity |-> description
    root,      \* the description handed to the top-level compile()
    nodes,     \* the compiled_schema objects built so far: node id |-> node
    caches,    \* the _mapping objects built so far: cache id |-> mapping
    stack,     \* the active compile() calls, innermost last
    out,       \* how the top-level compile() ended
    ndisp,     \* identity |-> how often compile() reached "real work starts here"
    call,      \* the last validate() call: its arguments and what it gave
    peer       \* a second top-level compile() in progress, while it does not run

vars == <<heap, root, nodes, caches, stack, out, ndisp, call, peer>>

(***************************************************************************)
(* Bounds of the model.                                                    *)
(***************************************************************************)
\* number of description objects of a generated schema graph
NumDesc == 3
\* depth of nested compile() calls at which the interpreter gives up
MaxDepth == 8
\* nesting depth of the generated chain values
MaxNest == 4
\* length of the generated candidate sequences
MaxLen == 4
\* depth of nested __validate__ calls at which the interpreter gives up
MaxCalls == 24
\* length of the longest text and of the longest int validated
MaxText == 124
\* number of elements of the largest container validated
MaxItems == 12

\* instance checks made on one type handle
MaxChecks == 3

(***************************************************************************)
(* Python values.                                                          *)
(***************************************************************************)
IntV(i) == [t |-> "int", iv |-> i]
StrV(s) == [t |-> "str", sv |-> s]
NoneV == [t |-> "none"]
ListV(xs) == [t |-> "list", items |-> xs]
TupleV(xs) == [t |-> "tuple", items |-> xs]
\* a dict: its keys in iteration order and the value of each
DictV(ks, vs) == [t |-> "dict", ks |-> ks, vs |-> vs]
EmptySetV == [t |-> "set", items |-> <<>>]
\* a set: its elements in iteration order
SetV(xs) == [t |-> "set", items |-> xs]
\* an object with the attributes ks of the values vs
ObjV(ks, vs) == [t |-> "O", ks |-> ks, vs |-> vs]

Last(s) == s[Len(s)]
Front(s) == SubSeq(s, 1, Len(s) - 1)
Reverse(s) == [i \in 1..Len(s) |-> s[Len(s) + 1 - i]]

RECURSIVE JoinStr(_, _)
JoinStr(ss, sep) ==
    IF Len(ss) = 0 THEN ""
    ELSE IF Len(ss) = 1 THEN ss[1]
    ELSE ss[1] \o sep \o JoinStr(Tail(ss), sep)

RECURSIVE repr(_)
repr(v) ==
    CASE v.t = "int" -> ToString(v.iv)
      [] v.t = "str" -> "'" \o v.sv \o "'"
      [] v.t = "none" -> "None"
      \* an int beyond the integers of the model, given by its digits
      [] v.t = "long" -> v.digits
      [] v.t = "list" ->
            "[" \o JoinStr([i \in 1..Len(v.items) |-> repr(v.items[i])], ", ") \o "]"
      [] v.t = "tuple" ->
            IF Len(v.items) = 1 THEN "(" \o repr(v.items[1]) \o ",)"
            ELSE "(" \o JoinStr([i \in 1..Len(v.items) |-> repr(v.items[i])], ", ") \o ")"
      [] v.t = "set" ->
            IF Len(v.items) = 0 THEN "set()"
            ELSE "{" \o JoinStr([i \in 1..Len(v.items) |-> repr(v.items[i])], ", ") \o "}"
      [] v.t = "dict" ->
            "{" \o JoinStr([i \in 1..Len(v.ks) |->
                              repr(v.ks[i]) \o ": " \o repr(v.vs[i])], ", ") \o "}"
      \* object.__repr__, without the address
      [] v.t = "O" -> "<O object>"

str(v) == IF v.t = "str" THEN v.sv ELSE repr(v)

\* the text length from which _c truncates, and the length of the kept prefix
TruncateAt == 120
TruncateKeep == 99

\* _c that keeps a text of exactly 120 characters whole
_c_from_121(s) ==
    LET ss == str(s)
        c == IF Len(ss) > 0 THEN SubSeq(ss, Len(ss), Len(ss)) ELSE ""
        cut == SubSeq(ss, 1, TruncateKeep) \o "...[TRUNCATED]..."
        ret == IF Len(ss) <= TruncateAt THEN ss
               ELSE IF s.t # "str" /\ c \in {"]", ")", "}"} THEN cut \o c
               ELSE cut
    IN  IF s.t = "str" THEN "'" \o ret \o "'" ELSE ret

\* lines 82-97
_c(s) ==
    LET ss == str(s)
        c == IF Len(ss) > 0 THEN SubSeq(ss, Len(ss), Len(ss)) ELSE ""
        cut == SubSeq(ss, 1, TruncateKeep) \o "...[TRUNCATED]..."
        ret == IF Len(ss) < TruncateAt THEN ss
               ELSE IF s.t # "str" /\ c \in {"]", ")", "}"} THEN cut \o c
               ELSE cut
    IN  IF s.t = "str" THEN "'" \o ret \o "'" ELSE ret

_wrong_type_message(object_, name, type_name) ==
    name \o " (value:" \o _c(object_) \o ") is not of type '" \o type_name \o "'"

(***************************************************************************)
(* Schema descriptions.  A description is an object of the heap and is     *)
(* referred to by its identity, a positive number; 0 stands for None and   *)
(* for the Ellipsis where a description may be either.                     *)
(***************************************************************************)
Ellipsis == 0

Const(v) == [k |-> "const", val |-> v]
TypeD(name) == [k |-> "type", name |-> name]
GenericAlias(name) == [k |-> "GenericAlias", name |-> name]
\* vtjson.regex, an instance of compiled_schema; the pattern's language is
\* given as the set of the texts it matches in full
regex(pattern, matches) ==
    [k |-> "regex", name |-> "regex('" \o pattern \o "')", matches |-> matches]
ListD(elems) == [k |-> "list", elems |-> elems]
TupleD(elems) == [k |-> "tuple", elems |-> elems]
\* a dict description: its items in iteration order, each the identity of
\* the key object and the identity of the value
DictD(items) == [k |-> "dict", items |-> items]
Item(key, val) == [key |-> key, val |-> val]
SetD(elems) == [k |-> "set", elems |-> elems]
optional_key(key) == [k |-> "optional_key", key |-> key]
union(schemas) == [k |-> "union", schemas |-> schemas]
intersect(schemas) == [k |-> "intersect", schemas |-> schemas]
complement(schema) == [k |-> "complement", schema |-> schema]
lax(schema) == [k |-> "lax", schema |-> schema]
strict(schema) == [k |-> "strict", schema |-> schema]
set_label(schema, labels) == [k |-> "set_label", schema |-> schema, labels |-> labels]
set_name(schema, name) == [k |-> "set_name", schema |-> schema, name |-> name]
ifthen(if_schema, then_schema, else_schema) ==
    [k |-> "ifthen", if_schema |-> if_schema, then_schema |-> then_schema,
     else_schema |-> else_schema]
cond(args) == [k |-> "cond", args |-> args]
fields(d) == [k |-> "fields", d |-> d]
filter(f, schema) == [k |-> "filter", filter |-> f, schema |-> schema]

\* a text key ending in "?" is optional; the key proper is a new text object,
\* whose identity is written as the negated identity of the original
EndsWithQ(s) == Len(s) > 0 /\ SubSeq(s, Len(s), Len(s)) = "?"

Desc(h, i) ==
    IF i > 0 THEN h[i] ELSE Const(StrV(SubSeq(h[-i].val.sv, 1, Len(h[-i].val.sv) - 1)))

\* lines 1734-1741: the key proper of a dict item and whether it is optional
KeyOf(h, rk) ==
    IF h[rk].k = "optional_key" THEN [optional |-> TRUE, key |-> h[rk].key]
    ELSE IF h[rk].k = "const" /\ h[rk].val.t = "str" /\ EndsWithQ(h[rk].val.sv)
         THEN [optional |-> TRUE, key |-> 0 - rk]
    ELSE [optional |-> FALSE, key |-> rk]

(***************************************************************************)
(* The cache of deferred compiles (class _mapping): identity of the        *)
(* description |-> the node stored for it and the in-use flag.             *)
(***************************************************************************)
_mapping == << >>

__setitem__(mp, key, value) ==
    [x \in (DOMAIN mp) \cup {key} |->
        IF x = key THEN [node |-> value, in_use |-> FALSE] ELSE mp[x]]

__getitem__(mp, key) == mp[key].node

__delitem__(mp, key) == [x \in (DOMAIN mp) \ {key} |-> mp[x]]

__contains__(mp, key) == key \in DOMAIN mp

in_use(mp, key) == mp[key].in_use

set_in_use(mp, key, value) == [mp EXCEPT ![key].in_use = value]

(***************************************************************************)
(* Compiled nodes.  A node is referred to by its id in `nodes`; a negative *)
(* reference -i is the description object i itself, where that object is   *)
(* an instance of compiled_schema; 0 is None.                              *)
(***************************************************************************)
_deferred(collection, key) == [k |-> "_deferred", collection |-> collection, key |-> key]
_const(schema) == [k |-> "_const", schema |-> schema]
_type(name) == [k |-> "_type", name |-> name]

Node(h, ns, n) == IF n < 0 THEN h[0 - n] ELSE ns[n]

IsDeferred(ns, n) == n > 0 /\ ns[n].k = "_deferred"
IsConst(ns, n) == n > 0 /\ ns[n].k = "_const"

(***************************************************************************)
(* compile() as a machine.  m is the state of one run: the nodes and the   *)
(* caches built so far, the stack of the active compile() calls, the       *)
(* outcome, and the count of the dispatches per description.  A frame of   *)
(* the stack is one call compile(schema, _deferred_compiles=cache) with    *)
(* the constructor it runs: todo holds the compile() calls the constructor *)
(* still has to make, done the nodes they returned.                        *)
(***************************************************************************)
Call(s, c) == [schema |-> s, cache |-> c]

Frame(s, c) ==
    [schema |-> s, cache |-> c, pc |-> "enter", todo |-> << >>, done |-> << >>,
     ret |-> 0]

Top(m) == m.stack[Len(m.stack)]

SetTop(m, f) == [m EXCEPT !.stack[Len(m.stack)] = f]

\* an exception leaves every active call
Raise(m, e) == [m EXCEPT !.stack = << >>, !.out = [kind |-> e, node |-> 0]]

\* the innermost call returns node r to the constructor that called it, or
\* to the caller of the top-level compile()
Return(m, r) ==
    LET n == Len(m.stack)
    IN  IF n = 1
        THEN [m EXCEPT !.stack = << >>, !.out = [kind |-> "node", node |-> r]]
        ELSE [m EXCEPT !.stack =
                [i \in 1..(n - 1) |->
                    IF i = n - 1 THEN [m.stack[i] EXCEPT !.done = Append(@, r)]
                    ELSE m.stack[i]]]

\* compile_enter with line 951 left out: the placeholder handed out is not
\* marked as in use
compile_enter_unmarked(h, m) ==
    LET f == Top(m)
        c == IF f.cache = 0 THEN Len(m.caches) + 1 ELSE f.cache
        cs == IF f.cache = 0 THEN Append(m.caches, _mapping) ELSE m.caches
        mp == cs[c]
        d == Len(m.nodes) + 1
    IN  IF __contains__(mp, f.schema) /\ IsDeferred(m.nodes, __getitem__(mp, f.schema))
        THEN Return([m EXCEPT !.caches = cs], __getitem__(mp, f.schema))
        ELSE SetTop([m EXCEPT !.nodes = Append(@, _deferred(c, f.schema)),
                              !.caches = [cs EXCEPT ![c] = __setitem__(mp, f.schema, d)]],
                    [f EXCEPT !.cache = c, !.pc = "dispatch"])

\* compile_enter that, handed no cache, takes the first cache there is (one
\* cache for all top-level calls) and creates one only if there is none
compile_enter_one_cache(h, m) ==
    LET f == Top(m)
        c == IF f.cache = 0 THEN 1 ELSE f.cache
        cs == IF f.cache = 0 /\ Len(m.caches) = 0 THEN Append(m.caches, _mapping)
              ELSE m.caches
        mp == cs[c]
        d == Len(m.nodes) + 1
    IN  IF __contains__(mp, f.schema) /\ IsDeferred(m.nodes, __getitem__(mp, f.schema))
        THEN Return([m EXCEPT !.caches = [cs EXCEPT ![c] = set_in_use(mp, f.schema, TRUE)]],
                    __getitem__(mp, f.schema))
        ELSE SetTop([m EXCEPT !.nodes = Append(@, _deferred(c, f.schema)),
                              !.caches = [cs EXCEPT ![c] = __setitem__(mp, f.schema, d)]],
                    [f EXCEPT !.cache = c, !.pc = "dispatch"])

\* lines 946-953: the cache is created when none was handed in; a
\* description whose entry is a _deferred node is answered with that node
compile_enter(h, m) ==
    LET f == Top(m)
        c == IF f.cache = 0 THEN Len(m.caches) + 1 ELSE f.cache
        cs == IF f.cache = 0 THEN Append(m.caches, _mapping) ELSE m.caches
        mp == cs[c]
        d == Len(m.nodes) + 1
    IN  IF __contains__(mp, f.schema) /\ IsDeferred(m.nodes, __getitem__(mp, f.schema))
        THEN Return([m EXCEPT !.caches = [cs EXCEPT ![c] = set_in_use(mp, f.schema, TRUE)]],
                    __getitem__(mp, f.schema))
        ELSE SetTop([m EXCEPT !.nodes = Append(@, _deferred(c, f.schema)),
                              !.caches = [cs EXCEPT ![c] = __setitem__(mp, f.schema, d)]],
                    [f EXCEPT !.cache = c, !.pc = "dispatch"])

\* the tests of the if/elif chain of lines 957-981
IsCompiledSchema(d) == d.k \in {"regex"}
HasCompile(d) ==
    d.k \in {"union", "intersect", "complement", "lax", "strict", "set_label",
             "set_name", "ifthen", "cond", "fields", "filter"}

\* lines 1343 and 1365: "else_schema is not None"; None handed in as the
\* else-schema is the value of the default
IsNone(h, s) == s = 0 \/ (s > 0 /\ h[s] = Const(NoneV))

RECURSIVE DictCalls(_, _, _)
\* lines 1732-1742: per item, the value is compiled and then the key proper
DictCalls(h, items, c) ==
    IF Len(items) = 0 THEN << >>
    ELSE << Call(items[1].val, c), Call(KeyOf(h, items[1].key).key, c) >>
         \o DictCalls(h, Tail(items), c)

RECURSIVE CondCalls(_, _)
CondCalls(args, c) ==
    IF Len(args) = 0 THEN << >>
    ELSE << Call(args[1][1], c), Call(args[1][2], c) >> \o CondCalls(Tail(args), c)

Calls(ss, c) == [i \in 1..Len(ss) |-> Call(ss[i], c)]

NotEllipsis(e) == e # Ellipsis

\* the compile() calls that the constructor of the node for d makes, in order,
\* each with the cache it passes on
ChildCalls(h, d, c) ==
    CASE d.k \in {"union", "intersect"} -> Calls(d.schemas, c)
      [] d.k \in {"complement", "lax", "strict", "set_label", "set_name"} ->
            << Call(d.schema, c) >>
      [] d.k = "ifthen" ->
            << Call(d.if_schema, c), Call(d.then_schema, c) >>
            \o (IF ~IsNone(h, d.else_schema) THEN << Call(d.else_schema, c) >>
                ELSE << >>)
      [] d.k = "cond" -> CondCalls(d.args, c)
      [] d.k = "fields" -> [i \in 1..Len(d.d) |-> Call(d.d[i].val, c)]
      \* lines 1544-1550: filter.__compile__ hands on no cache
      [] d.k = "filter" -> << Call(d.schema, 0) >>
      [] d.k \in {"list", "tuple"} -> Calls(SelectSeq(d.elems, NotEllipsis), c)
      [] d.k = "dict" -> DictCalls(h, d.items, c)
      [] d.k = "set" -> Calls(d.elems, c)
      [] OTHER -> << >>

\* lines 955-981: "real work starts here"; the constructor chosen for the
\* description starts to run
compile_dispatch(h, m) ==
    LET f == Top(m)
        d == Desc(h, f.schema)
    IN  SetTop([m EXCEPT !.ndisp[f.schema] = @ + 1],
               [f EXCEPT !.pc = "build", !.todo = ChildCalls(h, d, f.cache)])

\* a constructor calls compile() on its next sub-schema
compile_descend(h, m) ==
    LET f == Top(m)
        next == f.todo[1]
    IN  IF Len(m.stack) >= MaxDepth THEN Raise(m, "RecursionError")
        ELSE [SetTop(m, [f EXCEPT !.todo = Tail(@)]) EXCEPT
                !.stack = Append(@, Frame(next.schema, next.cache))]

\* a sequence used as a set with an iteration order: x is added once
AddNew(s, x) == IF \E i \in 1..Len(s) : s[i] = x THEN s ELSE Append(s, x)

Put(f, x, v) == [y \in (DOMAIN f) \cup {x} |-> IF y = x THEN v ELSE f[y]]

RECURSIVE _dict_init(_, _, _, _, _)
\* lines 1728-1750: done holds, per item, the compiled value and then the
\* compiled key; a key that compiled to a _const is a constant key, any
\* other key is a pattern key
_dict_init(h, ns, items, done, acc) ==
    IF Len(items) = 0 THEN acc
    ELSE LET compiled_schema == done[1]
             c == done[2]
             ko == KeyOf(h, items[1].key)
             key == Desc(h, ko.key).val
             acc2 == IF IsConst(ns, c)
                     THEN [acc EXCEPT
                             !.min_keys = IF ko.optional THEN @ ELSE AddNew(@, key),
                             !.const_keys = AddNew(@, key),
                             !.schema = Put(@, key, compiled_schema)]
                     ELSE [acc EXCEPT
                             !.other_keys = AddNew(@, c),
                             !.schema_other = Put(@, c, compiled_schema)]
         IN  _dict_init(h, ns, Tail(items), SubSeq(done, 3, Len(done)), acc2)

_dict(h, ns, items, done) ==
    _dict_init(h, ns, items, done,
               [k |-> "_dict", min_keys |-> << >>, const_keys |-> << >>,
                other_keys |-> << >>, schema |-> << >>, schema_other |-> << >>])

\* what a constructor gives: the nodes with the new ones added, the node
\* returned, and the exception raised if any
Built(ns, node) == [nodes |-> Append(ns, node), ret |-> Len(ns) + 1, err |-> ""]
Failed(ns, e) == [nodes |-> ns, ret |-> 0, err |-> e]

\* _sequence that keeps every element schema before "..." positional and
\* has the last of them as the fill as well
_sequence_untrimmed(ns, d, done) ==
    IF Len(d.elems) > 0 /\ Last(d.elems) = Ellipsis
    THEN IF Len(d.elems) >= 2
         THEN IF Len(done) = 0 THEN Failed(ns, "IndexError")
              ELSE Built(ns, [k |-> "_sequence", type_schema |-> d.k,
                              schema |-> done, fill |-> Last(done),
                              ellipsis |-> TRUE])
         ELSE Built(Append(ns, _type("object")),
                    [k |-> "_sequence", type_schema |-> d.k, schema |-> << >>,
                     fill |-> Len(ns) + 1, ellipsis |-> TRUE])
    ELSE Built(ns, [k |-> "_sequence", type_schema |-> d.k, schema |-> done,
                    fill |-> 0, ellipsis |-> FALSE])

\* lines 1585-1603
_sequence(ns, d, done) ==
    IF Len(d.elems) > 0 /\ Last(d.elems) = Ellipsis
    THEN IF Len(d.elems) >= 2
         THEN IF Len(done) = 0 THEN Failed(ns, "IndexError")
              ELSE Built(ns, [k |-> "_sequence", type_schema |-> d.k,
                              schema |-> Front(done), fill |-> Last(done),
                              ellipsis |-> TRUE])
         ELSE Built(Append(ns, _type("object")),
                    [k |-> "_sequence", type_schema |-> d.k, schema |-> << >>,
                     fill |-> Len(ns) + 1, ellipsis |-> TRUE])
    ELSE Built(ns, [k |-> "_sequence", type_schema |-> d.k, schema |-> done,
                    fill |-> 0, ellipsis |-> FALSE])

\* lines 1803-1816
_set(ns, d, done) ==
    IF Len(d.elems) = 0
    THEN Built(Append(ns, _const(EmptySetV)),
               [k |-> "_set", mode |-> "empty", schema |-> Len(ns) + 1])
    ELSE IF Len(d.elems) = 1
    THEN Built(ns, [k |-> "_set", mode |-> "singleton", schema |-> done[1]])
    ELSE Built(Append(ns, [k |-> "_union", schemas |-> done]),
               [k |-> "_set", mode |-> "general", schema |-> Len(ns) + 1])

RECURSIVE Pairs(_)
Pairs(done) ==
    IF Len(done) = 0 THEN << >>
    ELSE << << done[1], done[2] >> >> \o Pairs(SubSeq(done, 3, Len(done)))

\* the node that the branch of lines 957-981 taken for description d at
\* identity s builds from the compiled sub-schemas
construct(h, ns, s, d, done) ==
    CASE IsCompiledSchema(d) -> [nodes |-> ns, ret |-> 0 - s, err |-> ""]
      [] d.k = "union" -> Built(ns, [k |-> "_union", schemas |-> done])
      [] d.k = "intersect" -> Built(ns, [k |-> "_intersect", schemas |-> done])
      [] d.k = "complement" -> Built(ns, [k |-> "_complement", schema |-> done[1]])
      [] d.k = "lax" -> Built(ns, [k |-> "_lax", schema |-> done[1]])
      [] d.k = "strict" -> Built(ns, [k |-> "_strict", schema |-> done[1]])
      \* line 338: self.labels is the set object of the description s itself
      [] d.k = "set_label" ->
            Built(ns, [k |-> "_set_label", schema |-> done[1], labels |-> s])
      [] d.k = "set_name" ->
            Built(ns, [k |-> "_set_name", schema |-> done[1], name |-> d.name])
      [] d.k = "ifthen" ->
            Built(ns, [k |-> "_ifthen", if_schema |-> done[1], then_schema |-> done[2],
                       else_schema |-> IF ~IsNone(h, d.else_schema) THEN done[3] ELSE 0])
      [] d.k = "cond" -> Built(ns, [k |-> "_cond", conditions |-> Pairs(done)])
      [] d.k = "fields" ->
            Built(ns, [k |-> "_fields",
                       d |-> [i \in 1..Len(d.d) |-> [name |-> d.d[i].name, node |-> done[i]]]])
      [] d.k = "filter" ->
            Built(ns, [k |-> "_filter", filter |-> d.filter, schema |-> done[1],
                       filter_name |-> d.filter])
      [] d.k = "type" -> Built(ns, _type(d.name))
      \* lines 1557-1558
      [] d.k = "GenericAlias" -> Failed(ns, "SchemaError")
      [] d.k \in {"list", "tuple"} -> _sequence(ns, d, done)
      [] d.k = "dict" -> Built(ns, _dict(h, ns, d.items, done))
      [] d.k = "set" -> _set(ns, d, done)
      [] OTHER -> Built(ns, _const(d.val))

\* the constructor has made its compile() calls and builds the node
compile_build(h, m) ==
    LET f == Top(m)
        b == construct(h, m.nodes, f.schema, Desc(h, f.schema), f.done)
    IN  IF b.err # "" THEN Raise(m, b.err)
        ELSE SetTop([m EXCEPT !.nodes = b.nodes], [f EXCEPT !.pc = "finish", !.ret = b.ret])

\* compile_finish that discards the entry whether or not it is in use
compile_finish_discards(h, m) ==
    LET f == Top(m)
        mp == m.caches[f.cache]
    IN  IF ~__contains__(mp, f.schema) THEN Raise(m, "KeyError")
        ELSE Return([m EXCEPT !.caches[f.cache] = __delitem__(mp, f.schema)], f.ret)

\* compile_finish that keeps the finished node in the cache whether or not
\* the placeholder was handed out
compile_finish_retains(h, m) ==
    LET f == Top(m)
        mp == m.caches[f.cache]
    IN  IF ~__contains__(mp, f.schema) THEN Raise(m, "KeyError")
        ELSE Return([m EXCEPT !.caches[f.cache] = __setitem__(mp, f.schema, f.ret)], f.ret)

\* lines 983-988: "back to updating the cache"
compile_finish(h, m) ==
    LET f == Top(m)
        mp == m.caches[f.cache]
    IN  IF ~__contains__(mp, f.schema) THEN Raise(m, "KeyError")
        ELSE IF in_use(mp, f.schema)
        THEN Return([m EXCEPT !.caches[f.cache] = __setitem__(mp, f.schema, f.ret)], f.ret)
        ELSE Return([m EXCEPT !.caches[f.cache] = __delitem__(mp, f.schema)], f.ret)

\* one step of the run
compile_step(h, m) ==
    LET f == Top(m)
    IN  CASE f.pc = "enter" -> compile_enter(h, m)
          [] f.pc = "dispatch" -> compile_dispatch(h, m)
          [] f.pc = "build" /\ Len(f.todo) > 0 -> compile_descend(h, m)
          [] f.pc = "build" /\ Len(f.todo) = 0 -> compile_build(h, m)
          [] f.pc = "finish" -> compile_finish(h, m)

Idents(h) == (DOMAIN h) \cup {0 - i : i \in DOMAIN h}

\* the state in which compile(s) is called at top level, with no cache
Start(h, s) ==
    [nodes |-> << >>, caches |-> << >>, stack |-> << Frame(s, 0) >>,
     out |-> [kind |-> "running", node |-> 0], ndisp |-> [i \in Idents(h) |-> 0]]

(***************************************************************************)
(* The run of the top-level compile(root) as actions.                      *)
(***************************************************************************)
M == [nodes |-> nodes, caches |-> caches, stack |-> stack, out |-> out, ndisp |-> ndisp]

Becomes(m) ==
    /\ nodes' = m.nodes
    /\ caches' = m.caches
    /\ stack' = m.stack
    /\ out' = m.out
    /\ ndisp' = m.ndisp
    /\ UNCHANGED <<heap, root, call, peer>>

At(pc) == Len(stack) > 0 /\ Top(M).pc = pc

CompileEnter == At("enter") /\ Becomes(compile_enter(heap, M))

CompileDispatch == At("dispatch") /\ Becomes(compile_dispatch(heap, M))

CompileDescend ==
    At("build") /\ Len(Top(M).todo) > 0 /\ Becomes(compile_descend(heap, M))

CompileBuild ==
    At("build") /\ Len(Top(M).todo) = 0 /\ Becomes(compile_build(heap, M))

CompileFinish == At("finish") /\ Becomes(compile_finish(heap, M))

NoCall == [done |-> FALSE]

\* there is no second compile()
NoPeer == [id |-> 0, stack |-> << >>]

(***************************************************************************)
(* compile() run to its end, as validate() and _validate() call it.        *)
(***************************************************************************)
RECURSIVE run(_, _)
run(h, m) ==
    IF Len(m.stack) = 0 THEN m
    ELSE CHOOSE r \in { run(h, n) : n \in {compile_step(h, m)} } : TRUE

\* lines 943-988, called at top level: compile(schema)
compile(h, s) == run(h, Start(h, s))

\* compile(s) that is handed the first of the existing caches instead of
\* making one of its own
compile_in_first_cache(h, s, ns, cs) ==
    run(h, [Start(h, s) EXCEPT !.nodes = ns, !.caches = cs,
                               !.stack = << Frame(s, IF Len(cs) > 0 THEN 1 ELSE 0) >>])

\* compile(s) called at top level while the nodes ns and the caches cs exist
compile_in(h, s, ns, cs) == run(h, [Start(h, s) EXCEPT !.nodes = ns, !.caches = cs])

(***************************************************************************)
(* __validate__.  cx holds what a validation reads and never changes: the  *)
(* heap, the nodes, the caches, the substitution map, and the order in     *)
(* which the sets of a _dict node are iterated.  A result is the message   *)
(* returned ("" for success) or the exception raised, with the log of the  *)
(* __validate__ calls made, in order.                                      *)
(***************************************************************************)
\* rev is the iteration order of the sets whose elements are the same
\* objects in every compile of the process; fresh is that of the sets
\* that hold nodes made by the compile, whose hashes are their addresses
Context(h, ns, cs, subs, rev) ==
    [heap |-> h, nodes |-> ns, caches |-> cs, subs |-> subs, rev |-> rev, fresh |-> rev]

Returned(msg) == [raised |-> "", msg |-> msg, log |-> << >>]
Raised(e, msg) == [raised |-> e, msg |-> msg, log |-> << >>]
Failure(r) == r.raised # "" \/ r.msg # ""
After(log, r) == [r EXCEPT !.log = log \o @]

isinstance(object_, name) == name = "object" \/ object_.t = name

Index(name, i) == name \o "[" \o ToString(i) \o "]"
KeyName(name, key) == name \o "[" \o repr(key) \o "]"

\* the iteration order of a set of a _dict node
Iter(cx, s) == IF cx.rev THEN Reverse(s) ELSE s

\* the order of every set of pattern keys taken as that of the compile
IterOther_by_compile(cx, s) == IF cx.fresh THEN Reverse(s) ELSE s

\* line 1779, "for kk in self.other_keys": the iteration order of the set of
\* pattern keys s of a _dict node; a key that is a compiled_schema instance
\* is in the set as itself (line 957), any other as a node of this compile
IterOther(cx, s) ==
    IF \E i \in 1..Len(s) : s[i] > 0 THEN (IF cx.fresh THEN Reverse(s) ELSE s)
    ELSE Iter(cx, s)

Contains(s, x) == \E i \in 1..Len(s) : s[i] = x

RECURSIVE __validate__(_, _, _, _, _, _)
RECURSIVE first_failure(_, _, _, _, _, _, _)
RECURSIVE _union__validate__(_, _, _, _, _, _, _, _, _)
RECURSIVE _cond__validate__(_, _, _, _, _, _, _)
RECURSIVE _dict_keys(_, _, _, _, _, _, _)
RECURSIVE _dict_other_keys(_, _, _, _, _, _, _, _, _, _, _)

\* a loop that validates objs[i] against ns[i] under names[i] for i, i+1,
\* ... and returns at the first result that is not a success
first_failure(cx, ns, objs, names, strict_, fuel, i) ==
    IF i > Len(ns) THEN Returned("")
    ELSE LET r == __validate__(cx, ns[i], objs[i], names[i], strict_, fuel)
         IN  IF Failure(r) THEN r
             ELSE After(r.log, first_failure(cx, ns, objs, names, strict_, fuel, i + 1))

\* _union.__validate__ that keeps the message of the last sub-schema only
_union__validate__last_message(cx, schemas, object_, name, strict_, fuel, i, messages, log) ==
    IF i > Len(schemas) THEN After(log, Returned(Last(messages)))
    ELSE LET r == __validate__(cx, schemas[i], object_, name, strict_, fuel)
         IN  IF r.raised # "" THEN After(log, r)
             ELSE IF r.msg = "" THEN After(log \o r.log, Returned(""))
             ELSE _union__validate__(cx, schemas, object_, name, strict_, fuel, i + 1,
                                     Append(messages, r.msg), log \o r.log)

\* _intersect.__validate__ that is content with one sub-schema accepting
_intersect__validate__any(cx, node, object_, name, strict_, fuel) ==
    _union__validate__(cx, node.schemas, object_, name, strict_, fuel, 1, << >>, << >>)

\* lines 215-226
_intersect__validate__(cx, node, object_, name, strict_, fuel) ==
    first_failure(cx, node.schemas, [i \in 1..Len(node.schemas) |-> object_],
                  [i \in 1..Len(node.schemas) |-> name], strict_, fuel, 1)

\* lines 183-190
_union__validate__(cx, schemas, object_, name, strict_, fuel, i, messages, log) ==
    IF i > Len(schemas) THEN After(log, Returned(JoinStr(messages, " and ")))
    ELSE LET r == __validate__(cx, schemas[i], object_, name, strict_, fuel)
         IN  IF r.raised # "" THEN After(log, r)
             ELSE IF r.msg = "" THEN After(log \o r.log, Returned(""))
             ELSE _union__validate__(cx, schemas, object_, name, strict_, fuel, i + 1,
                                     Append(messages, r.msg), log \o r.log)

\* lines 1420-1423
_cond__validate__(cx, conditions, object_, name, strict_, fuel, i) ==
    IF i > Len(conditions) THEN Returned("")
    ELSE LET r == __validate__(cx, conditions[i][1], object_, name, strict_, fuel)
         IN  IF r.raised # "" THEN r
             ELSE IF r.msg = ""
             THEN After(r.log, __validate__(cx, conditions[i][2], object_, name, strict_, fuel))
             ELSE After(r.log, _cond__validate__(cx, conditions, object_, name, strict_,
                                                 fuel, i + 1))

\* _dict_other_keys in which the first pattern key that accepts the key k
\* decides: when its sub-schema refuses the value, no other pattern key is
\* tried
_dict_other_keys_first_match(cx, node, oks, k, v, name_, strict_, fuel, i, vals, log) ==
    IF i > Len(oks) THEN [raised |-> "", msg |-> "", found |-> FALSE, vals |-> vals, log |-> log]
    ELSE LET kk == oks[i]
             rk == __validate__(cx, kk, k, "key", strict_, fuel)
             rv == __validate__(cx, node.schema_other[kk], v, name_, strict_, fuel)
         IN  IF rk.raised # ""
             THEN [raised |-> rk.raised, msg |-> rk.msg, found |-> FALSE, vals |-> vals,
                   log |-> log \o rk.log]
             ELSE IF rk.msg # ""
             THEN _dict_other_keys(cx, node, oks, k, v, name_, strict_, fuel, i + 1, vals,
                                   log \o rk.log)
             ELSE IF rv.raised # ""
             THEN [raised |-> rv.raised, msg |-> rv.msg, found |-> FALSE, vals |-> vals,
                   log |-> log \o rk.log \o rv.log]
             ELSE [raised |-> "", msg |-> "", found |-> rv.msg = "",
                   vals |-> IF rv.msg = "" THEN vals ELSE Append(vals, rv.msg),
                   log |-> log \o rk.log \o rv.log]

\* lines 1779-1787: the loop over the pattern keys for the key k of the
\* object, from the i-th on; found says that the loop was left by break
_dict_other_keys(cx, node, oks, k, v, name_, strict_, fuel, i, vals, log) ==
    IF i > Len(oks) THEN [raised |-> "", msg |-> "", found |-> FALSE, vals |-> vals, log |-> log]
    ELSE LET kk == oks[i]
             rk == __validate__(cx, kk, k, "key", strict_, fuel)
             rv == __validate__(cx, node.schema_other[kk], v, name_, strict_, fuel)
         IN  IF rk.raised # ""
             THEN [raised |-> rk.raised, msg |-> rk.msg, found |-> FALSE, vals |-> vals,
                   log |-> log \o rk.log]
             ELSE IF rk.msg # ""
             THEN _dict_other_keys(cx, node, oks, k, v, name_, strict_, fuel, i + 1, vals,
                                   log \o rk.log)
             ELSE IF rv.raised # ""
             THEN [raised |-> rv.raised, msg |-> rv.msg, found |-> FALSE, vals |-> vals,
                   log |-> log \o rk.log \o rv.log]
             ELSE IF rv.msg = ""
             THEN [raised |-> "", msg |-> "", found |-> TRUE, vals |-> vals,
                   log |-> log \o rk.log \o rv.log]
             ELSE _dict_other_keys(cx, node, oks, k, v, name_, strict_, fuel, i + 1,
                                   Append(vals, rv.msg), log \o rk.log \o rv.log)

\* _dict_keys in which a constant key whose value fails is final: the
\* pattern keys are not tried for it
_dict_keys_const_final(cx, node, object_, name, strict_, fuel, i) ==
    IF i > Len(object_.ks) THEN Returned("")
    ELSE LET k == object_.ks[i]
             v == object_.vs[i]
             name_ == KeyName(name, k)
             is_const == Contains(node.const_keys, k)
             val == __validate__(cx, node.schema[k], v, name_, strict_, fuel)
             o == _dict_other_keys(cx, node, IterOther(cx, node.other_keys), k, v, name_,
                                   strict_, fuel, 1, << >>, << >>)
             next == _dict_keys(cx, node, object_, name, strict_, fuel, i + 1)
         IN  IF is_const /\ Failure(val) THEN val
             ELSE IF is_const THEN After(val.log, next)
             ELSE IF o.raised # "" THEN After(o.log, Raised(o.raised, o.msg))
             ELSE IF o.found THEN After(o.log, next)
             ELSE IF Len(o.vals) > 0 THEN After(o.log, Returned(JoinStr(o.vals, " and ")))
             ELSE IF strict_ THEN After(o.log, Returned(name_ \o " is not in the schema"))
             ELSE After(o.log, next)

\* _dict_keys that reports the messages of the failed attempts in strict
\* mode only: in non-strict mode the key is passed over
_dict_keys_lax_silent(cx, node, object_, name, strict_, fuel, i) ==
    IF i > Len(object_.ks) THEN Returned("")
    ELSE LET k == object_.ks[i]
             v == object_.vs[i]
             name_ == KeyName(name, k)
             is_const == Contains(node.const_keys, k)
             val == __validate__(cx, node.schema[k], v, name_, strict_, fuel)
             o == _dict_other_keys(cx, node, IterOther(cx, node.other_keys), k, v, name_,
                                   strict_, fuel, 1,
                                   IF is_const THEN << val.msg >> ELSE << >>,
                                   IF is_const THEN val.log ELSE << >>)
             next == _dict_keys(cx, node, object_, name, strict_, fuel, i + 1)
         IN  IF is_const /\ val.raised # "" THEN val
             ELSE IF is_const /\ val.msg = "" THEN After(val.log, next)
             ELSE IF o.raised # "" THEN After(o.log, Raised(o.raised, o.msg))
             ELSE IF o.found THEN After(o.log, next)
             ELSE IF Len(o.vals) > 0 /\ strict_
             THEN After(o.log, Returned(JoinStr(o.vals, " and ")))
             ELSE IF strict_ THEN After(o.log, Returned(name_ \o " is not in the schema"))
             ELSE After(o.log, next)

\* lines 1767-1793: the loop over the keys of the object, from the i-th on
_dict_keys(cx, node, object_, name, strict_, fuel, i) ==
    IF i > Len(object_.ks) THEN Returned("")
    ELSE LET k == object_.ks[i]
             v == object_.vs[i]
             name_ == KeyName(name, k)
             is_const == Contains(node.const_keys, k)
             val == __validate__(cx, node.schema[k], v, name_, strict_, fuel)
             o == _dict_other_keys(cx, node, IterOther(cx, node.other_keys), k, v, name_,
                                   strict_, fuel, 1,
                                   IF is_const THEN << val.msg >> ELSE << >>,
                                   IF is_const THEN val.log ELSE << >>)
             next == _dict_keys(cx, node, object_, name, strict_, fuel, i + 1)
         IN  IF is_const /\ val.raised # "" THEN val
             ELSE IF is_const /\ val.msg = "" THEN After(val.log, next)
             ELSE IF o.raised # "" THEN After(o.log, Raised(o.raised, o.msg))
             ELSE IF o.found THEN After(o.log, next)
             ELSE IF Len(o.vals) > 0 THEN After(o.log, Returned(JoinStr(o.vals, " and ")))
             ELSE IF strict_ THEN After(o.log, Returned(name_ \o " is not in the schema"))
             ELSE After(o.log, next)

\* lines 1759-1765: the first required key, in iteration order, that the
\* object lacks; 0 if it has them all
MissingKey(keys, object_) ==
    IF \E i \in 1..Len(keys) : ~Contains(object_.ks, keys[i])
    THEN CHOOSE i \in 1..Len(keys) :
            /\ ~Contains(object_.ks, keys[i])
            /\ \A j \in 1..(i - 1) : Contains(object_.ks, keys[j])
    ELSE 0

\* _dict__validate__ that looks for missing keys only after the present
\* keys have been validated
_dict__validate__keys_first(cx, node, object_, name, strict_, fuel) ==
    LET keys == Iter(cx, node.min_keys)
        i == MissingKey(keys, object_)
        r == _dict_keys(cx, node, object_, name, strict_, fuel, 1)
    IN  IF object_.t # "dict" THEN Returned(_wrong_type_message(object_, name, "dict"))
        ELSE IF Failure(r) THEN r
        ELSE IF i # 0 THEN After(r.log, Returned(KeyName(name, keys[i]) \o " is missing"))
        ELSE r

\* lines 1752-1793
_dict__validate__(cx, node, object_, name, strict_, fuel) ==
    LET keys == Iter(cx, node.min_keys)
        i == MissingKey(keys, object_)
    IN  IF object_.t # "dict" THEN Returned(_wrong_type_message(object_, name, "dict"))
        ELSE IF i # 0 THEN Returned(KeyName(name, keys[i]) \o " is missing")
        ELSE _dict_keys(cx, node, object_, name, strict_, fuel, 1)

\* _sequence__validate__ that refuses a longer object in both modes
_sequence__validate__any_mode(cx, node, object_, name, strict_, fuel) ==
    LET ls == Len(node.schema)
        lo == Len(object_.items)
    IN  IF ~isinstance(object_, node.type_schema)
        THEN Returned(_wrong_type_message(object_, name, "list"))
        ELSE IF lo > ls THEN Returned(Index(name, ls) \o " is not in the schema")
        ELSE IF ls > lo THEN Returned(Index(name, lo) \o " is missing")
        ELSE first_failure(cx, node.schema, object_.items,
                           [i \in 1..ls |-> Index(name, i - 1)], strict_, fuel, 1)

\* lines 1605-1628; type(self.schema) is list whatever the schema's type
_sequence__validate__(cx, node, object_, name, strict_, fuel) ==
    LET ls == Len(node.schema)
        lo == Len(object_.items)
    IN  IF ~isinstance(object_, node.type_schema)
        THEN Returned(_wrong_type_message(object_, name, "list"))
        ELSE IF strict_ /\ lo > ls THEN Returned(Index(name, ls) \o " is not in the schema")
        ELSE IF ls > lo THEN Returned(Index(name, lo) \o " is missing")
        ELSE first_failure(cx, node.schema, object_.items,
                           [i \in 1..ls |-> Index(name, i - 1)], strict_, fuel, 1)

\* _sequence__validate_ellipsis__ that validates the leading elements only
\* and lets any content follow them
_sequence__validate_ellipsis__free_tail(cx, node, object_, name, strict_, fuel) ==
    LET ls == Len(node.schema)
        lo == Len(object_.items)
    IN  IF ~isinstance(object_, node.type_schema)
        THEN Returned(_wrong_type_message(object_, name, "list"))
        ELSE IF ls > lo THEN Returned(Index(name, lo) \o " is missing")
        ELSE first_failure(cx, node.schema, object_.items,
                           [i \in 1..ls |-> Index(name, i - 1)], strict_, fuel, 1)

\* lines 1630-1655
_sequence__validate_ellipsis__(cx, node, object_, name, strict_, fuel) ==
    LET ls == Len(node.schema)
        lo == Len(object_.items)
    IN  IF ~isinstance(object_, node.type_schema)
        THEN Returned(_wrong_type_message(object_, name, "list"))
        ELSE IF ls > lo THEN Returned(Index(name, lo) \o " is missing")
        ELSE first_failure(cx,
                           [i \in 1..lo |-> IF i <= ls THEN node.schema[i] ELSE node.fill],
                           object_.items, [i \in 1..lo |-> Index(name, i - 1)],
                           strict_, fuel, 1)

\* lines 1818-1857
_set__validate__(cx, node, object_, name, strict_, fuel) ==
    IF node.mode = "empty" THEN __validate__(cx, node.schema, object_, name, TRUE, fuel)
    ELSE IF ~isinstance(object_, "set")
    THEN Returned(_wrong_type_message(object_, name, "set"))
    ELSE first_failure(cx, [i \in 1..Len(object_.items) |-> node.schema], object_.items,
                       [i \in 1..Len(object_.items) |->
                            name \o "{" \o ToString(i - 1) \o "}"],
                       TRUE, fuel, 1)

\* lines 1449-1458: hasattr and getattr for every item of self.d in turn
_fields__validate__(cx, node, object_, name, strict_, fuel) ==
    LET has(i) == object_.t = "O" /\ Contains(object_.ks, node.d[i].name)
        n == IF \E i \in 1..Len(node.d) : ~has(i)
             THEN (CHOOSE i \in 1..Len(node.d) : ~has(i) /\ \A j \in 1..(i - 1) : has(j)) - 1
             ELSE Len(node.d)
        attr(i) == object_.vs[CHOOSE j \in 1..Len(object_.ks) :
                                  object_.ks[j] = node.d[i].name]
        r == first_failure(cx, [i \in 1..n |-> node.d[i].node], [i \in 1..n |-> attr(i)],
                           [i \in 1..n |-> name \o "." \o node.d[i].name], strict_,
                           fuel, 1)
    IN  IF Failure(r) \/ n = Len(node.d) THEN r
        ELSE After(r.log, Returned(name \o "." \o node.d[n + 1].name \o " is missing"))

\* the functions handed to filter: def f(v): return v and
\* def first(v): return v[0]; raised is str(e) of the exception
Apply(f, v) ==
    LET given(x) == [value |-> x, raised |-> ""]
        fails(e) == [value |-> v, raised |-> e]
    IN  CASE f = "f" -> given(v)
          [] f = "first" ->
                CASE v.t \in {"list", "tuple"} ->
                         IF Len(v.items) > 0 THEN given(v.items[1])
                         ELSE fails(v.t \o " index out of range")
                  [] v.t = "str" ->
                         IF Len(v.sv) > 0 THEN given(StrV(SubSeq(v.sv, 1, 1)))
                         ELSE fails("string index out of range")
                  [] v.t = "dict" ->
                         IF Contains(v.ks, IntV(0))
                         THEN given(v.vs[CHOOSE j \in 1..Len(v.ks) : v.ks[j] = IntV(0)])
                         ELSE fails("0")
                  [] v.t = "none" -> fails("'NoneType' object is not subscriptable")
                  [] OTHER -> fails("'" \o v.t \o "' object is not subscriptable")

\* _filter.__validate__ that hands the name it built to the inner schema
_filter__validate__named(cx, node, object_, name, strict_, fuel) ==
    LET a == Apply(node.filter, object_)
    IN  IF a.raised # ""
        THEN Returned("Applying " \o node.filter_name \o " to " \o name \o " (value: "
                      \o _c(object_) \o ") failed: " \o a.raised)
        ELSE __validate__(cx, node.schema, a.value,
                          node.filter_name \o "(" \o name \o ")", strict_, fuel)

\* lines 1505-1522: the name built in line 1519 is not used, the inner
\* schema is handed "object"
_filter__validate__(cx, node, object_, name, strict_, fuel) ==
    LET a == Apply(node.filter, object_)
    IN  IF a.raised # ""
        THEN Returned("Applying " \o node.filter_name \o " to " \o name \o " (value: "
                      \o _c(object_) \o ") failed: " \o a.raised)
        ELSE __validate__(cx, node.schema, a.value, "object", strict_, fuel)

\* what a compile() made during a validation left of the nodes and the
\* caches that existed before it
Compiled(cx, name, m) ==
    [node |-> 0, name |-> name, nodes |-> SubSeq(m.nodes, 1, Len(cx.nodes)),
     caches |-> SubSeq(m.caches, 1, Len(cx.caches))]

\* _set_label.__validate__ that applies the substitute with the strictness
\* of the call instead of strict=True (line 362)
_set_label__validate__callers_strict(cx, node, object_, name, strict_, fuel) ==
    LET common_labels == (DOMAIN cx.subs) \cap Desc(cx.heap, node.labels).labels
        key == CHOOSE l \in common_labels : TRUE
        m == compile_in(cx.heap, cx.subs[key], cx.nodes, cx.caches)
    IN  IF Cardinality(common_labels) >= 2
        THEN Raised("ValidationError", "multiple substitutions for " \o name)
        ELSE IF Cardinality(common_labels) = 1
        THEN After(<< Compiled(cx, name, m) >>,
                   IF m.out.kind # "node" THEN Raised(m.out.kind, "")
                   ELSE __validate__([cx EXCEPT !.nodes = m.nodes, !.caches = m.caches],
                                     m.out.node, object_, name, strict_, fuel))
        ELSE __validate__(cx, node.schema, object_, name, TRUE, fuel)

\* lines 341-364; the tuple of the keys is left out of the text of the
\* exception
_set_label__validate__(cx, node, object_, name, strict_, fuel) ==
    LET common_labels == (DOMAIN cx.subs) \cap Desc(cx.heap, node.labels).labels
        key == CHOOSE l \in common_labels : TRUE
        \* line 362: _validate(subs[key], ...) compiles, then validates; the
        \* call of _validate is one more level of nesting
        replaced ==
            { After(<< Compiled(cx, name, m) >>,
                    IF m.out.kind # "node" THEN Raised(m.out.kind, "")
                    ELSE IF fuel = 0 THEN Raised("RecursionError", "")
                    ELSE __validate__([cx EXCEPT !.nodes = m.nodes, !.caches = m.caches],
                                      m.out.node, object_, name, TRUE, fuel - 1)) :
                m \in {compile_in(cx.heap, cx.subs[key], cx.nodes, cx.caches)} }
    IN  IF Cardinality(common_labels) >= 2
        THEN Raised("ValidationError", "multiple substitutions for " \o name)
        ELSE IF Cardinality(common_labels) = 1
        THEN CHOOSE r \in replaced : TRUE
        ELSE __validate__(cx, node.schema, object_, name, TRUE, fuel)

\* lines 894-905
_deferred__validate__(cx, node, object_, name, strict_, fuel) ==
    LET collection == cx.caches[node.collection]
    IN  IF ~__contains__(collection, node.key)
        THEN Raised("ValidationError",
                    name \o ": key " \o ToString(node.key) \o " is unknown")
        ELSE __validate__(cx, __getitem__(collection, node.key), object_, name, strict_,
                          fuel)

\* the __validate__ of the node's class, its calls one level deeper
Visit(cx, n, object_, name, strict_, fuel) ==
    LET node == Node(cx.heap, cx.nodes, n)
    IN  CASE node.k = "_deferred" ->
                _deferred__validate__(cx, node, object_, name, strict_, fuel)
          \* lines 1679-1681
          [] node.k = "_const" ->
                IF object_ # node.schema
                THEN Returned(name \o " (value:" \o _c(object_) \o ") is not equal to "
                              \o repr(node.schema))
                ELSE Returned("")
          \* lines 1568-1572
          [] node.k = "_type" ->
                IF ~isinstance(object_, node.name)
                THEN Returned(_wrong_type_message(object_, name, node.name))
                ELSE Returned("")
          \* lines 480-489
          [] node.k = "regex" ->
                IF isinstance(object_, "str") /\ object_.sv \in node.matches
                THEN Returned("")
                ELSE Returned(_wrong_type_message(object_, name, node.name))
          [] node.k = "_union" ->
                _union__validate__(cx, node.schemas, object_, name, strict_, fuel, 1,
                                   << >>, << >>)
          [] node.k = "_intersect" ->
                _intersect__validate__(cx, node, object_, name, strict_, fuel)
          \* lines 254-258
          [] node.k = "_complement" ->
                LET r == __validate__(cx, node.schema, object_, name, strict_, fuel)
                IN  IF r.raised # "" THEN r
                    ELSE IF r.msg # "" THEN After(r.log, Returned(""))
                    ELSE After(r.log,
                               Returned(name \o " does not match the complemented schema"))
          \* line 286
          [] node.k = "_lax" -> __validate__(cx, node.schema, object_, name, FALSE, fuel)
          \* line 314
          [] node.k = "_strict" -> __validate__(cx, node.schema, object_, name, TRUE, fuel)
          \* lines 421-424
          [] node.k = "_set_label" ->
                _set_label__validate__(cx, node, object_, name, strict_, fuel)
          [] node.k = "_set_name" ->
                LET r == __validate__(cx, node.schema, object_, name, strict_, fuel)
                IN  IF r.raised # "" \/ r.msg = "" THEN r
                    ELSE After(r.log, Returned(_wrong_type_message(object_, name, node.name)))
          \* lines 1358-1369
          [] node.k = "_ifthen" ->
                LET r == __validate__(cx, node.if_schema, object_, name, strict_, fuel)
                IN  IF r.raised # "" THEN r
                    ELSE IF r.msg = ""
                    THEN After(r.log, __validate__(cx, node.then_schema, object_, name,
                                                   strict_, fuel))
                    ELSE IF node.else_schema # 0
                    THEN After(r.log, __validate__(cx, node.else_schema, object_, name,
                                                   strict_, fuel))
                    ELSE After(r.log, Returned(""))
          [] node.k = "_cond" ->
                _cond__validate__(cx, node.conditions, object_, name, strict_, fuel, 1)
          [] node.k = "_fields" ->
                _fields__validate__(cx, node, object_, name, strict_, fuel)
          [] node.k = "_filter" ->
                _filter__validate__(cx, node, object_, name, strict_, fuel)
          [] node.k = "_sequence" ->
                IF node.ellipsis
                THEN _sequence__validate_ellipsis__(cx, node, object_, name, strict_, fuel)
                ELSE _sequence__validate__(cx, node, object_, name, strict_, fuel)
          [] node.k = "_dict" -> _dict__validate__(cx, node, object_, name, strict_, fuel)
          [] node.k = "_set" -> _set__validate__(cx, node, object_, name, strict_, fuel)

\* node n validates object_ under the path label name; fuel is the number
\* of nested calls the interpreter still allows, and the log has the depth
\* of the call below the outermost __validate__
__validate__(cx, n, object_, name, strict_, fuel) ==
    IF fuel = 0 THEN Raised("RecursionError", "")
    ELSE After(<< [node |-> n, name |-> name, strict |-> strict_,
                   depth |-> MaxCalls - fuel] >>,
               Visit(cx, n, object_, name, strict_, fuel - 1))

\* lines 991-998: compile, then invoke; an exception of compile() leaves
\* _validate as well
_validate(h, schema, object_, name, strict_, subs, rev) ==
    LET m == compile(h, schema)
    IN  IF m.out.kind # "node" THEN Raised(m.out.kind, "")
        ELSE __validate__(Context(h, m.nodes, m.caches, subs, rev), m.out.node, object_,
                          name, strict_, MaxCalls)

\* validate that hands the message back instead of raising it
validate_returns_message(h, schema, object_, name, strict_, subs, rev) ==
    LET message == _validate(h, schema, object_, name, strict_, subs, rev)
    IN  IF message.raised # "" THEN [raised |-> message.raised, msg |-> message.msg]
        ELSE IF message.msg # "" THEN [raised |-> "", msg |-> message.msg]
        ELSE [raised |-> "", msg |-> "None"]

\* lines 1001-1010: the exception that leaves validate(), with its message,
\* or the None it returns
validate(h, schema, object_, name, strict_, subs, rev) ==
    LET message == _validate(h, schema, object_, name, strict_, subs, rev)
    IN  IF message.raised # "" THEN [raised |-> message.raised, msg |-> message.msg]
        ELSE IF message.msg # "" THEN [raised |-> "ValidationError", msg |-> message.msg]
        ELSE [raised |-> "", msg |-> "None"]

(***************************************************************************)
(* Generated schema graphs: NumDesc description objects, the first one the *)
(* root, every object a leaf or a container or combinator of kind w over   *)
(* one sub-schema; the root may hold two sub-schemas, in a container of    *)
(* kind rw.  Three more objects serve as keys and conditions.              *)
(***************************************************************************)
Wrappers ==
    {"dict", "list", "tuple", "set", "union", "intersect", "complement", "lax",
     "strict", "set_label", "set_name", "ifthen", "cond", "fields", "filter"}

RootKinds == {"list", "union"}

KeyA == NumDesc + 1
KeyB == NumDesc + 2
Other == NumDesc + 3

Wrap1(w, c) ==
    CASE w = "dict" -> DictD(<< Item(KeyA, c) >>)
      [] w = "list" -> ListD(<< c >>)
      [] w = "tuple" -> TupleD(<< c >>)
      [] w = "set" -> SetD(<< c >>)
      [] w = "union" -> union(<< Other, c >>)
      [] w = "intersect" -> intersect(<< c >>)
      [] w = "complement" -> complement(c)
      [] w = "lax" -> lax(c)
      [] w = "strict" -> strict(c)
      [] w = "set_label" -> set_label(c, {"x"})
      [] w = "set_name" -> set_name(c, "n")
      [] w = "ifthen" -> ifthen(Other, c, 0)
      [] w = "cond" -> cond(<< << Other, c >> >>)
      [] w = "fields" -> fields(<< [name |-> "f", val |-> c] >>)
      [] w = "filter" -> filter("f", c)

Wrap2(rw, cs) == IF rw = "list" THEN ListD(cs) ELSE union(cs)

Shapes(n) == { << >> } \cup { << c >> : c \in 1..n }

RootShapes(n) == Shapes(n) \cup { << c1, c2 >> : c1 \in 1..n, c2 \in 1..n }

GraphHeap(w, rw, ch) ==
    [i \in 1..(NumDesc + 3) |->
        IF i = KeyA THEN Const(StrV("a?"))
        ELSE IF i = KeyB THEN Const(StrV("b"))
        ELSE IF i = Other THEN Const(IntV(1))
        ELSE IF Len(ch[i]) = 0 THEN Const(NoneV)
        ELSE IF Len(ch[i]) = 1 THEN Wrap1(w, ch[i][1])
        ELSE Wrap2(rw, ch[i])]

RECURSIVE Reach(_, _)
\* the objects reachable from those of set S along the sub-schema edges
Reach(ch, S) ==
    LET T == S \cup UNION { { ch[i][j] : j \in 1..Len(ch[i]) } : i \in S }
    IN  IF T = S THEN S ELSE Reach(ch, T)

\* a set holds hashable objects only: no dict, list or set
Hashable(d) == d.k \notin {"dict", "list", "set"}

WellFormed(h) ==
    \A i \in DOMAIN h :
        h[i].k = "set" => \A j \in 1..Len(h[i].elems) : Hashable(h[h[i].elems[j]])

Graphs ==
    { g \in [w : Wrappers, rw : RootKinds,
             ch : { c \in [1..NumDesc -> RootShapes(NumDesc)] :
                      \A i \in 2..NumDesc : Len(c[i]) <= 1 }] :
        /\ Reach(g.ch, {1}) = 1..NumDesc
        /\ (Len(g.ch[1]) < 2 => g.rw = "list")
        /\ ((\A i \in 1..NumDesc : Len(g.ch[i]) # 1) => g.w = "dict")
        /\ WellFormed(GraphHeap(g.w, g.rw, g.ch)) }

InitGraph ==
    /\ \E g \in Graphs : heap = GraphHeap(g.w, g.rw, g.ch)
    /\ root = 1
    /\ nodes = << >>
    /\ caches = << >>
    /\ stack = << Frame(root, 0) >>
    /\ out = [kind |-> "running", node |-> 0]
    /\ ndisp = [i \in Idents(heap) |-> 0]
    /\ call = NoCall
    /\ peer = NoPeer

NextCompile ==
    \/ CompileEnter
    \/ CompileDispatch
    \/ CompileDescend
    \/ CompileBuild
    \/ CompileFinish

SpecCompile == InitGraph /\ [][NextCompile]_vars

(***************************************************************************)
(* Schemas of the tests (src/test_vtjson.py) and of their kind, as heaps   *)
(* with the identity of the schema validated against, and the values.      *)
(***************************************************************************)
Schema(h, s) == [heap |-> h, root |-> s]

\* a = {}; a["a?"] = a
SelfDict == Schema(<< DictD(<< Item(2, 1) >>), Const(StrV("a?")) >>, 1)

\* a = {}; a["a?"] = intersect(a)
SelfIntersect ==
    Schema(<< DictD(<< Item(2, 3) >>), Const(StrV("a?")), intersect(<< 1 >>) >>, 1)

\* a = {}; b = {}; a["a?"] = union(b, a)
SelfUnion ==
    Schema(<< DictD(<< Item(2, 3) >>), Const(StrV("a?")), union(<< 4, 1 >>),
              DictD(<< >>) >>, 1)

\* a = {}; b = {}; a["b"] = union(b, None); b["a"] = union(a, None)
MutualHeap ==
    << DictD(<< Item(3, 5) >>), DictD(<< Item(4, 6) >>), Const(StrV("b")),
       Const(StrV("a")), union(<< 2, 7 >>), union(<< 1, 7 >>), Const(NoneV) >>

\* person = {"mother": union(person, "unknown"),
\*           "father": union(person, "unknown"), "name": str}
Person ==
    Schema(<< DictD(<< Item(2, 5), Item(3, 6), Item(4, 7) >>), Const(StrV("mother")),
              Const(StrV("father")), Const(StrV("name")), union(<< 1, 8 >>),
              union(<< 1, 8 >>), TypeD("str"), Const(StrV("unknown")) >>, 1)

\* a = {"b?": b}; b = {"a?": a}; the schema is [a, b]
BothHeap ==
    << ListD(<< 2, 3 >>), DictD(<< Item(4, 3) >>), DictD(<< Item(5, 2) >>),
       Const(StrV("b?")), Const(StrV("a?")) >>

\* {"a?": 1, "b": 2}
StrictDict ==
    Schema(<< DictD(<< Item(2, 4), Item(3, 5) >>), Const(StrV("a?")), Const(StrV("b")),
              Const(IntV(1)), Const(IntV(2)) >>, 1)

\* {"a": 1, regex("a"): 2}
ConstAndPattern ==
    Schema(<< DictD(<< Item(2, 4), Item(3, 5) >>), Const(StrV("a")), regex("a", {"a"}),
              Const(IntV(1)), Const(IntV(2)) >>, 1)

\* {regex("[a-c]"): 4, regex("[b-d]"): 5}
TwoPatterns ==
    Schema(<< DictD(<< Item(2, 4), Item(3, 5) >>), regex("[a-c]", {"a", "b", "c"}),
              regex("[b-d]", {"b", "c", "d"}), Const(IntV(4)), Const(IntV(5)) >>, 1)

\* {str: 1, object: 2}
TypeKeys ==
    Schema(<< DictD(<< Item(2, 4), Item(3, 5) >>), TypeD("str"), TypeD("object"),
              Const(IntV(1)), Const(IntV(2)) >>, 1)

\* ["a", "b"], ("a", "b"), ["a", "b", ...], ["a", ...], [...], ["a", ..., "b"]
SeqHeap ==
    << Const(StrV("a")), Const(StrV("b")), ListD(<< 1, 2 >>), TupleD(<< 1, 2 >>),
       ListD(<< 1, 2, Ellipsis >>), ListD(<< 1, Ellipsis >>), ListD(<< Ellipsis >>),
       ListD(<< 1, Ellipsis, 2 >>) >>

\* union(2, 3)
Union23 == Schema(<< union(<< 2, 3 >>), Const(IntV(2)), Const(IntV(3)) >>, 1)

\* {"a?": 1, "b": union(2, 3)}
UnionDict ==
    Schema(<< DictD(<< Item(2, 4), Item(3, 5) >>), Const(StrV("a?")), Const(StrV("b")),
              Const(IntV(1)), union(<< 6, 7 >>), Const(IntV(2)), Const(IntV(3)) >>, 1)

\* intersect(union(2, 3), union(3, 4))
Intersect234 ==
    Schema(<< intersect(<< 2, 3 >>), union(<< 4, 5 >>), union(<< 5, 6 >>),
              Const(IntV(2)), Const(IntV(3)), Const(IntV(4)) >>, 1)

\* set_label("a", "x", "y") and {1: set_label("a", "x", "y")}, with the
\* schemas "b", {"a?": 1} and list[int] that substitution maps refer to
LabelHeap ==
    << set_label(2, {"x", "y"}), Const(StrV("a")), Const(StrV("b")),
       DictD(<< Item(5, 6) >>), Const(StrV("a?")), Const(IntV(1)),
       GenericAlias("list[int]"), DictD(<< Item(6, 1) >>) >>

\* S = {"a?": S, "l?": set_label("a", "x")}, and "b"
LoopLabel ==
    Schema(<< DictD(<< Item(2, 1), Item(3, 4) >>), Const(StrV("a?")), Const(StrV("l?")),
              set_label(5, {"x"}), Const(StrV("a")), Const(StrV("b")) >>, 1)

Catalog ==
    {SelfDict, SelfIntersect, SelfUnion, Schema(MutualHeap, 1), Schema(MutualHeap, 2),
     Person, Schema(BothHeap, 1), StrictDict, ConstAndPattern, TwoPatterns,
     Union23, UnionDict, Intersect234, Schema(LabelHeap, 1), Schema(LabelHeap, 8)}
    \cup {Schema(SeqHeap, s) : s \in 3..8}

EmptyDict == DictV(<< >>, << >>)

RECURSIVE Chains(_)
\* the values {k1: {k2: ... t}} nested up to d deep
Chains(d) ==
    IF d = 0 THEN {EmptyDict, NoneV}
    ELSE Chains(0) \cup { DictV(<< StrV(k) >>, << v >>) : k \in {"a", "b"}, v \in Chains(d - 1) }

\* the dicts of up to two of the keys a, b, c with values 1, 2, 3, and the
\* dicts of one key a..d with a value 1..6
FlatDicts ==
    { DictV(<< StrV(k) >>, << IntV(v) >>) : k \in {"a", "b", "c", "d"}, v \in 1..6 }
    \cup { DictV(<< StrV(p[1]), StrV(p[2]) >>, << IntV(v1), IntV(v2) >>) :
             p \in { q \in {"a", "b", "c"} \X {"a", "b", "c"} : q[1] # q[2] },
             v1 \in 1..3, v2 \in 1..3 }

RECURSIVE SeqsOver(_, _)
SeqsOver(S, n) ==
    IF n = 0 THEN { << >> }
    ELSE SeqsOver(S, n - 1)
         \cup { Append(s, x) : s \in { t \in SeqsOver(S, n - 1) : Len(t) = n - 1 }, x \in S }

Sequences_ ==
    { ListV(s) : s \in SeqsOver({StrV("a"), StrV("b")}, MaxLen) }
    \cup { TupleV(s) : s \in SeqsOver({StrV("a"), StrV("b")}, MaxLen) }
    \cup { ListV(<< IntV(1), NoneV >>), ListV(<< EmptyDict, EmptyDict >>),
           ListV(<< DictV(<< StrV("b") >>, << DictV(<< StrV("a") >>, << EmptyDict >>) >>),
                    EmptyDict >>),
           ListV(<< EmptyDict, DictV(<< StrV("a") >>, << DictV(<< StrV("b") >>,
                                                          << EmptyDict >>) >>) >>) }

PersonV(name, father, mother) ==
    DictV(<< StrV("name"), StrV("father"), StrV("mother") >>, << name, father, mother >>)

Unknown == StrV("unknown")

People ==
    { PersonV(StrV("John"), PersonV(StrV("Carlo"), Unknown, Unknown),
              PersonV(StrV("Iris"), Unknown, m)) : m \in {Unknown, StrV("Sarah")} }
    \cup { PersonV(StrV("John"), Unknown, Unknown), PersonV(IntV(1), Unknown, Unknown),
           DictV(<< StrV("name") >>, << StrV("John") >>) }

Values ==
    Chains(MaxNest) \cup FlatDicts \cup Sequences_ \cup People
    \cup {IntV(i) : i \in 1..5} \cup {StrV("a"), StrV("b"), StrV("unknown")}
    \cup { DictV(<< IntV(1) >>, << v >>) :
              v \in {StrV("a"), StrV("b"), DictV(<< IntV(1) >>, << StrV("a") >>)} }
    \cup { DictV(<< StrV("l") >>, << v >>) :
              v \in {StrV("a"), StrV("b"), EmptyDict,
                     DictV(<< StrV("a") >>, << EmptyDict >>),
                     DictV(<< StrV("l") >>, << StrV("a") >>),
                     DictV(<< StrV("l") >>,
                           << DictV(<< StrV("l") >>, << StrV("b") >>) >>)} }

NoSubs == << >>

\* the substitution maps tried with the schemas of LabelHeap
LabelSubs ==
    { NoSubs, "x" :> 3, "y" :> 3, "z" :> 3, "x" :> 4, "x" :> 7, ("x" :> 3) @@ ("y" :> 4) }

\* the substitution maps tried with LoopLabel: "x" names S itself, or "b"
LoopSubs == { NoSubs, "x" :> 1, "x" :> 6 }

\* s = set_label("a", "x"); t = set_label("b", "x");
\* u = union("a"); u.schemas = ("a", u)
CycleHeap ==
    << set_label(2, {"x"}), Const(StrV("a")), set_label(4, {"x"}), Const(StrV("b")),
       union(<< 2, 5 >>) >>

\* the substitution maps tried with CycleHeap: "x" names s itself, t, or "b"
CycleSubs == { NoSubs, "x" :> 1, "x" :> 3, "x" :> 4 }

Subs(h) ==
    IF h = LabelHeap THEN LabelSubs
    ELSE IF h = LoopLabel.heap THEN LoopSubs
    ELSE IF h = CycleHeap THEN CycleSubs
    ELSE {NoSubs}

\* the path labels handed to validate(); "object" is the default
Names == {"object", "arg"}

(***************************************************************************)
(* validate(root, object_, name, strict) is called once the schema is      *)
(* compiled: message is what the compiled node's __validate__ gives, ret   *)
(* is how validate() ends.                                                 *)
(***************************************************************************)
Invoke(object_, name, strict_, subs, rev) ==
    IF out.kind # "node" THEN Raised(out.kind, "")
    ELSE __validate__(Context(heap, nodes, caches, subs, rev), out.node, object_, name,
                      strict_, MaxCalls)

\* the nodes ns and the caches cs as the compile() calls of a validation
\* left them: an entry that one of them changed has the value it was given
Left(log, ns, cs) ==
    LET made == { j \in 1..Len(log) : "nodes" \in DOMAIN log[j] }
        Now(old, given) ==
            IF given \subseteq {old} THEN old ELSE CHOOSE x \in given \ {old} : TRUE
    IN  [nodes |-> [i \in 1..Len(ns) |-> Now(ns[i], { log[j].nodes[i] : j \in made })],
         caches |-> [i \in 1..Len(cs) |-> Now(cs[i], { log[j].caches[i] : j \in made })]]

Validate ==
    /\ Len(stack) = 0
    /\ ~call.done
    /\ \E object_ \in Values, name \in Names, strict_ \in BOOLEAN, rev \in BOOLEAN,
          subs \in Subs(heap) :
          LET message == Invoke(object_, name, strict_, subs, rev)
          IN  /\ call' = [done |-> TRUE, object_ |-> object_, name |-> name,
                          strict |-> strict_, subs |-> subs, rev |-> rev,
                          message |-> message,
                          ret |-> validate(heap, root, object_, name, strict_, subs, rev)]
              /\ nodes' = Left(message.log, nodes, caches).nodes
              /\ caches' = Left(message.log, nodes, caches).caches
    /\ UNCHANGED <<heap, root, stack, out, ndisp, peer>>

Init ==
    /\ \E s \in Catalog : heap = s.heap /\ root = s.root
    /\ nodes = << >>
    /\ caches = << >>
    /\ stack = << Frame(root, 0) >>
    /\ out = [kind |-> "running", node |-> 0]
    /\ ndisp = [i \in Idents(heap) |-> 0]
    /\ call = NoCall
    /\ peer = NoPeer

Next ==
    \/ CompileEnter
    \/ CompileDispatch
    \/ CompileDescend
    \/ CompileBuild
    \/ CompileFinish
    \/ Validate

Spec == Init /\ [][Next]_vars

(***************************************************************************)
(* The schema is compiled a second time and the second validator is given  *)
(* the arguments of the call made to the first.                            *)
(***************************************************************************)
DictCatalog ==
    {TypeKeys, TwoPatterns, ConstAndPattern, StrictDict, UnionDict, SelfDict,
     Schema(LabelHeap, 8)}

InitTwice ==
    /\ \E s \in DictCatalog : heap = s.heap /\ root = s.root
    /\ nodes = << >>
    /\ caches = << >>
    /\ stack = << Frame(root, 0) >>
    /\ out = [kind |-> "running", node |-> 0]
    /\ ndisp = [i \in Idents(heap) |-> 0]
    /\ call = NoCall
    /\ peer = NoPeer

\* V2.__validate__(object_, name, strict, subs) for the node V2 that the
\* compile m returned: the node, the message, and the nodes and caches
\* afterwards
validate_with(h, m, object_, name, strict_, subs, rev, fresh) ==
    LET message == IF m.out.kind # "node" THEN Raised(m.out.kind, "")
                   ELSE __validate__([Context(h, m.nodes, m.caches, subs, rev)
                                        EXCEPT !.fresh = fresh],
                                     m.out.node, object_, name, strict_, MaxCalls)
    IN  [node |-> m.out.node, message |-> message,
         left |-> Left(message.log, m.nodes, m.caches)]

\* V2 = compile(root); V2.__validate__(object_, name, strict, subs)
ValidateAgain ==
    /\ Len(stack) = 0
    /\ call.done
    /\ "again" \notin DOMAIN call
    /\ \E fresh \in BOOLEAN, m \in {compile_in(heap, root, nodes, caches)} :
          \E v2 \in {validate_with(heap, m, call.object_, call.name, call.strict,
                                   call.subs, call.rev, fresh)} :
              /\ call' = [again |-> [fresh |-> fresh, node |-> v2.node,
                                     message |-> v2.message]] @@ call
              /\ nodes' = v2.left.nodes
              /\ caches' = v2.left.caches
    /\ UNCHANGED <<heap, root, stack, out, ndisp, peer>>

(***************************************************************************)
(* Values with text forms around the length at which _c truncates are      *)
(* validated against the schema "a", as in test_truncation.                *)
(***************************************************************************)
RECURSIVE Times(_, _)
\* n * s
Times(n, s) ==
    IF n = 0 THEN ""
    ELSE IF n % 2 = 0 THEN LET half == Times(n \div 2, s) IN half \o half
    ELSE s \o Times(n - 1, s)

LongV(digits) == [t |-> "long", digits |-> digits]

Texts == { StrV(Times(n, "a")) : n \in 0..MaxText }

Containers ==
    { ListV([i \in 1..k |-> StrV("abcdefgh")]) : k \in 0..MaxItems }
    \cup { TupleV([i \in 1..k |-> StrV("abcdefgh")]) : k \in 0..MaxItems }
    \cup { DictV([i \in 1..k |-> IntV(i - 1)], [i \in 1..k |-> IntV(7 * (i - 1))]) :
              k \in 0..(2 * MaxItems) }

Longs == { LongV(Times(n, "1")) : n \in (MaxText - 8)..MaxText }

RenderValues == Texts \cup Containers \cup Longs \cup {NoneV, IntV(1000)}

ConstA == Schema(<< Const(StrV("a")) >>, 1)

\* schema = compile("a") has returned
InitRender ==
    /\ heap = ConstA.heap
    /\ root = ConstA.root
    /\ \E m \in {compile(heap, root)} :
          /\ nodes = m.nodes
          /\ caches = m.caches
          /\ stack = m.stack
          /\ out = m.out
          /\ ndisp = m.ndisp
    /\ call = NoCall
    /\ peer = NoPeer

\* validate(schema, object_)
ValidateText ==
    /\ Len(stack) = 0
    /\ \E object_ \in RenderValues :
          call' = [done |-> TRUE, object_ |-> object_, name |-> "object",
                   strict |-> TRUE, subs |-> NoSubs, rev |-> FALSE,
                   message |-> Invoke(object_, "object", TRUE, NoSubs, FALSE),
                   ret |-> validate(heap, root, object_, "object", TRUE, NoSubs, FALSE)]
    /\ UNCHANGED <<heap, root, nodes, caches, stack, out, ndisp, peer>>

NextRender == ValidateText

SpecRender == InitRender /\ [][NextRender]_vars

(***************************************************************************)
(* Two top-level compile() calls, of the same description or of two        *)
(* descriptions that share objects, run interleaved, as in two threads:    *)
(* the nodes and caches are objects of one memory, each call has its stack *)
(* of active compile() calls.  peer holds the call that does not run.      *)
(***************************************************************************)
\* a = {"a?": a} and filter(f, a), which holds a
SharedHeap == << DictD(<< Item(2, 1) >>), Const(StrV("a?")), filter("f", 1) >>

SharedRoots == {1, 3}

InitTwo ==
    /\ heap = SharedHeap
    /\ nodes = << >>
    /\ caches = << >>
    /\ ndisp = [i \in Idents(heap) |-> 0]
    /\ call = NoCall
    /\ out = [kind |-> "running", node |-> 0]
    /\ \E r1 \in SharedRoots, r2 \in SharedRoots :
          /\ root = r1
          /\ stack = << Frame(r1, 0) >>
          /\ peer = [id |-> 2, root |-> r2, stack |-> << Frame(r2, 0) >>,
                     out |-> [kind |-> "running", node |-> 0],
                     ndisp |-> [i \in Idents(heap) |-> 0]]

\* the thread of the other compile() is scheduled
Switch ==
    /\ peer.id # 0
    /\ Len(peer.stack) > 0
    /\ root' = peer.root
    /\ stack' = peer.stack
    /\ out' = peer.out
    /\ ndisp' = peer.ndisp
    /\ peer' = [id |-> 3 - peer.id, root |-> root, stack |-> stack, out |-> out,
                ndisp |-> ndisp]
    /\ UNCHANGED <<heap, nodes, caches, call>>

NextTwo ==
    \/ CompileEnter
    \/ CompileDispatch
    \/ CompileDescend
    \/ CompileBuild
    \/ CompileFinish
    \/ Switch

SpecTwo == InitTwo /\ [][NextTwo]_vars

(***************************************************************************)
(* Any number of validate calls is made on the compiled graph, one after   *)
(* the other.                                                              *)
(***************************************************************************)
CallsCatalog ==
    {LoopLabel, SelfDict, SelfUnion, Schema(MutualHeap, 1), Schema(LabelHeap, 1),
     Schema(LabelHeap, 8)}

InitCalls ==
    /\ \E s \in CallsCatalog : heap = s.heap /\ root = s.root
    /\ nodes = << >>
    /\ caches = << >>
    /\ stack = << Frame(root, 0) >>
    /\ out = [kind |-> "running", node |-> 0]
    /\ ndisp = [i \in Idents(heap) |-> 0]
    /\ call = NoCall
    /\ peer = NoPeer

\* the values of the calls
CallValues ==
    { StrV("a"), StrV("b"), EmptyDict, DictV(<< StrV("a") >>, << EmptyDict >>),
      DictV(<< StrV("a") >>, << DictV(<< StrV("b") >>, << NoneV >>) >>),
      DictV(<< IntV(1) >>, << StrV("b") >>),
      DictV(<< StrV("l") >>, << StrV("b") >>),
      DictV(<< StrV("l") >>, << DictV(<< StrV("l") >>, << EmptyDict >>) >>) }

\* a call, after the calls made so far; calls is 2 from the second on
ValidateNext ==
    /\ Len(stack) = 0
    /\ \E object_ \in CallValues, strict_ \in BOOLEAN, subs \in Subs(heap) :
          \E message \in {Invoke(object_, "object", strict_, subs, FALSE)} :
              /\ call' = [done |-> TRUE, object_ |-> object_, name |-> "object",
                          strict |-> strict_, subs |-> subs, rev |-> FALSE,
                          message |-> message,
                          ret |-> validate(heap, root, object_, "object", strict_, subs,
                                           FALSE),
                          calls |-> IF call.done THEN 2 ELSE 1]
              /\ nodes' = Left(message.log, nodes, caches).nodes
              /\ caches' = Left(message.log, nodes, caches).caches
    /\ UNCHANGED <<heap, root, stack, out, ndisp, peer>>

NextCalls ==
    \/ CompileEnter
    \/ CompileDispatch
    \/ CompileDescend
    \/ CompileBuild
    \/ CompileFinish
    \/ ValidateNext

SpecCalls == InitCalls /\ [][NextCalls]_vars

(***************************************************************************)
(* The description is mutated after it was compiled, and the validator is  *)
(* given the arguments of the earlier call once more.                      *)
(***************************************************************************)
\* L = ["a"], as in test_immutable; "b" is what L[0] becomes
ListA == Schema(<< ListD(<< 2 >>), Const(StrV("a")), Const(StrV("b")) >>, 1)

\* L2 = {"a": 1}, as in test_immutable; "b" and 2 are what is added
DictA1 ==
    Schema(<< DictD(<< Item(2, 4) >>), Const(StrV("a")), Const(StrV("b")),
              Const(IntV(1)), Const(IntV(2)) >>, 1)

MutableCatalog == {ListA, DictA1, Schema(LabelHeap, 1), Schema(LabelHeap, 8)}

InitMutate ==
    /\ \E s \in MutableCatalog : heap = s.heap /\ root = s.root
    /\ nodes = << >>
    /\ caches = << >>
    /\ stack = << Frame(root, 0) >>
    /\ out = [kind |-> "running", node |-> 0]
    /\ ndisp = [i \in Idents(heap) |-> 0]
    /\ call = NoCall
    /\ peer = NoPeer

\* the description s and the objects directly inside it
Inside(h, s) ==
    {s} \cup
    CASE h[s].k \in {"list", "tuple"} ->
             { h[s].elems[j] : j \in 1..Len(h[s].elems) } \ {Ellipsis}
      [] h[s].k = "dict" ->
             UNION { {h[s].items[j].key, h[s].items[j].val} : j \in 1..Len(h[s].items) }
      [] h[s].k = "set_label" -> {h[s].schema}
      [] OTHER -> {}

Consts(h, t) == { i \in DOMAIN h : h[i].k = "const" /\ h[i].val.t = t }

LabelNames == {"x", "y", "z"}

\* the heaps that one mutation of the object i gives: L[j] = k for a list,
\* L2[k] = v for a dict and a new key k, labels.add(l) for the set of labels
\* of a set_label object
Mutations(h, i) ==
    CASE h[i].k = "list" ->
             { [h EXCEPT ![i].elems[j] = k] :
                 j \in { n \in 1..Len(h[i].elems) : h[i].elems[n] # Ellipsis },
                 k \in Consts(h, "str") } \ {h}
      [] h[i].k = "dict" ->
             { [h EXCEPT ![i].items = Append(@, Item(k, v))] :
                 k \in Consts(h, "str") \ { h[i].items[j].key : j \in 1..Len(h[i].items) },
                 v \in Consts(h, "int") }
      [] h[i].k = "set_label" ->
             { [h EXCEPT ![i].labels = @ \cup {l}] : l \in LabelNames } \ {h}
      [] OTHER -> {}

\* the caller mutates the description, or an object inside it, after the
\* compile has returned a node and a value has been validated
Mutate ==
    /\ Len(stack) = 0
    /\ out.kind = "node"
    /\ call.done
    /\ "mutated" \notin DOMAIN call
    /\ \E i \in Inside(heap, root) : \E h \in Mutations(heap, i) :
          /\ heap' = h
          /\ call' = [mutated |-> i] @@ call
    /\ UNCHANGED <<root, nodes, caches, stack, out, ndisp, peer>>

\* the node is given the arguments of the earlier call once more
ValidateAfter ==
    /\ "mutated" \in DOMAIN call
    /\ "after" \notin DOMAIN call
    /\ \E message \in {Invoke(call.object_, call.name, call.strict, call.subs, call.rev)} :
          /\ call' = [after |-> message] @@ call
          /\ nodes' = Left(message.log, nodes, caches).nodes
          /\ caches' = Left(message.log, nodes, caches).caches
    /\ UNCHANGED <<heap, root, stack, out, ndisp, peer>>

NextMutate ==
    \/ CompileEnter
    \/ CompileDispatch
    \/ CompileDescend
    \/ CompileBuild
    \/ CompileFinish
    \/ Validate
    \/ Mutate
    \/ ValidateAfter

SpecMutate == InitMutate /\ [][NextMutate]_vars

NextTwice ==
    \/ CompileEnter
    \/ CompileDispatch
    \/ CompileDescend
    \/ CompileBuild
    \/ CompileFinish
    \/ Validate
    \/ ValidateAgain

SpecTwice == InitTwice /\ [][NextTwice]_vars

(***************************************************************************)
(* make_type(schema, strict=..., subs=...) returns a type handle that      *)
(* holds the description, the flag and the substitutions; isinstance(x, t) *)
(* runs __instancecheck__.  The caller may mutate the description between  *)
(* two checks.  call.handle is the handle, call.first the node the first   *)
(* check validated with, call.node the node of the latest check and        *)
(* call.heap the descriptions as they were at that check.                  *)
(***************************************************************************)
\* {"a": 1} and {1: set_label("a", "x")}, as in test_make_type
TypeCatalog == {DictA1, Schema(LabelHeap, 8)}

\* the candidates of test_make_type
TypeValues ==
    { DictV(<< StrV("a") >>, << IntV(1) >>), DictV(<< StrV("a") >>, << IntV(2) >>),
      DictV(<< StrV("a"), StrV("b") >>, << IntV(1), IntV(1) >>),
      DictV(<< IntV(1) >>, << StrV("b") >>), DictV(<< IntV(1) >>, << StrV("a") >>) }

\* t = make_type(schema, strict=strict_, subs=subs): nothing is compiled
InitType ==
    /\ \E s \in TypeCatalog : heap = s.heap /\ root = s.root
    /\ nodes = << >>
    /\ caches = << >>
    /\ stack = << >>
    /\ out = [kind |-> "running", node |-> 0]
    /\ ndisp = [i \in Idents(heap) |-> 0]
    /\ \E strict_ \in BOOLEAN, subs \in Subs(heap) :
          call = [done |-> FALSE, checks |-> 0,
                  handle |-> [schema |-> root, strict |-> strict_, subs |-> subs]]
    /\ peer = NoPeer

\* isinstance(object_, t): _validate compiles cls.__schema__ and has the
\* node validate object_ under the name "object"; valid is what the check
\* returns, raised the exception that leaves it
__instancecheck__ ==
    /\ Len(stack) = 0
    /\ "handle" \in DOMAIN call
    /\ call.checks < MaxChecks
    /\ \E object_ \in TypeValues, m \in {compile_in(heap, call.handle.schema, nodes, caches)} :
          \E v \in {validate_with(heap, m, object_, "object", call.handle.strict,
                                  call.handle.subs, FALSE, FALSE)} :
              /\ call' = [done |-> TRUE, object_ |-> object_, name |-> "object",
                          strict |-> call.handle.strict, subs |-> call.handle.subs,
                          rev |-> FALSE, message |-> v.message,
                          raised |-> v.message.raised,
                          valid |-> v.message.raised = "" /\ v.message.msg = "",
                          node |-> v.node,
                          first |-> IF call.checks = 0 THEN v.node ELSE call.first,
                          checks |-> call.checks + 1, heap |-> heap]
                         @@ call
              /\ nodes' = v.left.nodes
              /\ caches' = v.left.caches
              /\ out' = m.out
              /\ ndisp' = m.ndisp
    /\ UNCHANGED <<heap, root, stack, peer>>

NextType ==
    \/ __instancecheck__
    \/ Mutate

SpecType == InitType /\ [][NextType]_vars

(***************************************************************************)
(* Schemas of further forms, each validated against values of its own.     *)
(***************************************************************************)
\* ["a", "b", "c", ...], ["a", "b", "c", "d", ...], ["a", ...] and
\* ("a", "b", ...)
EllipsisHeap ==
    << Const(StrV("a")), Const(StrV("b")), Const(StrV("c")), Const(StrV("d")),
       ListD(<< 1, 2, 3, Ellipsis >>), ListD(<< 1, 2, 3, 4, Ellipsis >>),
       ListD(<< 1, Ellipsis >>), TupleD(<< 1, 2, Ellipsis >>) >>

Letters == {StrV("a"), StrV("b"), StrV("c"), StrV("d")}

\* ifthen(union(1, 2), 1), the same with the else-schemas 3 and None, and
\* cond((union(1, 2), 1), (2, 2), (3, 2))
CondHeap ==
    << Const(IntV(1)), Const(IntV(2)), Const(IntV(3)), Const(NoneV), union(<< 1, 2 >>),
       ifthen(5, 1, 0), ifthen(5, 1, 3), ifthen(5, 1, 4),
       cond(<< << 5, 1 >>, << 2, 2 >>, << 3, 2 >> >>) >>

\* {"a?": 1} below every container and combinator, a set of tuples, and
\* all of them in lax() and in strict(); lax(strict(S)), strict(lax(S)) and
\* the wrappers inside a list and a union
Plain ==
    << Const(StrV("a?")), Const(IntV(1)), DictD(<< Item(1, 2) >>), set_label(3, {"x"}),
       TupleD(<< 2 >>), SetD(<< 5 >>), union(<< 2, 3 >>), ListD(<< 3 >>), filter("f", 3),
       fields(<< [name |-> "p", val |-> 3] >>), ifthen(3, 3, 0), set_name(3, "n"),
       complement(3), cond(<< << 3, 3 >> >>), intersect(<< 3, 2 >>) >>

StrictHeap ==
    Plain \o [i \in 1..Len(Plain) |-> lax(i)]
          \o [i \in 1..Len(Plain) |-> strict(i)]
          \o << lax(2 * Len(Plain) + 3), strict(Len(Plain) + 3),
                ListD(<< Len(Plain) + 3 >>), union(<< 2, 2 * Len(Plain) + 3 >>) >>

StrictValues ==
    LET ab == DictV(<< StrV("a"), StrV("b") >>, << IntV(1), IntV(2) >>)
        b == DictV(<< StrV("b") >>, << IntV(2) >>)
    IN  { EmptyDict, DictV(<< StrV("a") >>, << IntV(1) >>), ab, b, IntV(1),
          TupleV(<< IntV(1) >>), TupleV(<< IntV(1), IntV(2) >>),
          SetV(<< TupleV(<< IntV(1) >>) >>), SetV(<< TupleV(<< IntV(1), IntV(2) >>) >>),
          ListV(<< EmptyDict >>), ListV(<< b >>), ObjV(<< "p" >>, << EmptyDict >>),
          ObjV(<< "p" >>, << b >>) }

\* def first(v): return v[0]
\* filter(first, "a"), filter(first, ["a"]), {"k": filter(first, ["a"])},
\* filter(first, filter(first, "a"))
FilterHeap ==
    << Const(StrV("a")), ListD(<< 1 >>), filter("first", 1), filter("first", 2),
       Const(StrV("k")), DictD(<< Item(5, 4) >>), filter("first", 3) >>

FilterValues ==
    LET b == ListV(<< StrV("b") >>)
        a == ListV(<< StrV("a") >>)
    IN  { a, b, ListV(<< >>), IntV(5), ListV(<< a >>), ListV(<< b >>),
          DictV(<< StrV("k") >>, << ListV(<< a >>) >>),
          DictV(<< StrV("k") >>, << ListV(<< b >>) >>),
          DictV(<< StrV("k") >>, << ListV(<< >>) >>) }

FormsCatalog ==
    { Schema(EllipsisHeap, r) : r \in 5..8 }
    \cup { Schema(StrictHeap, r) : r \in 3..Len(StrictHeap) }
    \cup { Schema(CondHeap, r) : r \in 6..9 }
    \cup { Schema(FilterHeap, r) : r \in {3, 4, 6, 7} }
    \cup { Schema(CycleHeap, r) : r \in {1, 5} }

\* the values a schema of the heap h is tried on
FormValues(h) ==
    CASE h = EllipsisHeap ->
             { ListV(xs) : xs \in SeqsOver(Letters, MaxLen) }
             \cup { TupleV(xs) : xs \in SeqsOver(Letters, MaxLen) }
      [] h = CondHeap -> { IntV(i) : i \in 1..5 } \cup {NoneV, StrV("a")}
      [] h = StrictHeap -> StrictValues
      [] h = FilterHeap -> FilterValues
      [] h = CycleHeap -> {StrV("a"), StrV("b"), IntV(1)}

InitForms ==
    /\ \E s \in FormsCatalog : heap = s.heap /\ root = s.root
    /\ nodes = << >>
    /\ caches = << >>
    /\ stack = << Frame(root, 0) >>
    /\ out = [kind |-> "running", node |-> 0]
    /\ ndisp = [i \in Idents(heap) |-> 0]
    /\ call = NoCall
    /\ peer = NoPeer

\* validate(root, object_, name, strict, subs) once root is compiled
ValidateForm ==
    /\ Len(stack) = 0
    /\ ~call.done
    /\ \E object_ \in FormValues(heap), name \in Names, strict_ \in BOOLEAN,
          rev \in BOOLEAN, subs \in Subs(heap) :
          \E message \in {Invoke(object_, name, strict_, subs, rev)} :
              /\ call' = [done |-> TRUE, object_ |-> object_, name |-> name,
                          strict |-> strict_, subs |-> subs, rev |-> rev,
                          message |-> message,
                          ret |-> validate(heap, root, object_, name, strict_, subs, rev)]
              /\ nodes' = Left(message.log, nodes, caches).nodes
              /\ caches' = Left(message.log, nodes, caches).caches
    /\ UNCHANGED <<heap, root, stack, out, ndisp, peer>>

NextForms ==
    \/ CompileEnter
    \/ CompileDispatch
    \/ CompileDescend
    \/ CompileBuild
    \/ CompileFinish
    \/ ValidateForm

SpecForms == InitForms /\ [][NextForms]_vars

(***************************************************************************)
(* The if/elif chain of compile by itself.  What it tests of a description *)
(* is held in a record: inst (an instance of compiled_schema), cls (a type *)
(* that is a subclass of compiled_schema), ctor (cls() succeeds), val and  *)
(* comp (it has the attribute __validate__, __compile__), type and alias   *)
(* (an instance of type, of GenericAlias), call (callable) and base (the   *)
(* builtin container type it is an instance of).                           *)
(***************************************************************************)
Bases == {"list", "tuple", "dict", "set", "other"}

\* the combinations an object can show: compiled_schema has __validate__,
\* a type is callable and no container, so is a GenericAlias
Objects ==
    { o \in [inst : BOOLEAN, cls : BOOLEAN, ctor : BOOLEAN, val : BOOLEAN,
             comp : BOOLEAN, type : BOOLEAN, alias : BOOLEAN, call : BOOLEAN,
             base : Bases] :
        /\ o.inst => o.val
        /\ o.cls => o.type /\ o.val
        /\ o.ctor => o.cls
        /\ o.type => o.call /\ o.base = "other" /\ ~o.alias
        /\ o.alias => o.call /\ o.base = "other" }

\* what the chain tests of the description kinds of the heap
Shape(k) ==
    [inst |-> k = "regex", cls |-> FALSE, ctor |-> FALSE, val |-> k = "regex",
     comp |-> HasCompile([k |-> k]), type |-> k = "type", alias |-> k = "GenericAlias",
     call |-> k \in {"type", "GenericAlias"},
     base |-> IF k \in {"list", "tuple", "dict", "set"} THEN k ELSE "other"]

Chosen(branch) == [branch |-> branch, raised |-> ""]

\* the chain with the test for a callable ahead of the test for __compile__
classify_callable_first(o) ==
    IF o.inst THEN Chosen("schema")
    ELSE IF o.cls
    THEN IF o.ctor THEN Chosen("schema()") ELSE [branch |-> "schema()", raised |-> "SchemaError"]
    ELSE IF o.val THEN Chosen("_validate_schema")
    ELSE IF o.type \/ o.alias
    THEN IF o.alias THEN [branch |-> "_type", raised |-> "SchemaError"] ELSE Chosen("_type")
    ELSE IF o.call THEN Chosen("_callable")
    ELSE IF o.comp THEN Chosen("__compile__")
    ELSE IF o.base \in {"tuple", "list"} THEN Chosen("_sequence")
    ELSE IF o.base = "dict" THEN Chosen("_dict")
    ELSE IF o.base = "set" THEN Chosen("_set")
    ELSE Chosen("_const")

\* lines 955-981, with lines 1556-1558 for _type(schema)
classify(o) ==
    IF o.inst THEN Chosen("schema")
    ELSE IF o.cls
    THEN IF o.ctor THEN Chosen("schema()") ELSE [branch |-> "schema()", raised |-> "SchemaError"]
    ELSE IF o.val THEN Chosen("_validate_schema")
    ELSE IF o.comp THEN Chosen("__compile__")
    ELSE IF o.type \/ o.alias
    THEN IF o.alias THEN [branch |-> "_type", raised |-> "SchemaError"] ELSE Chosen("_type")
    ELSE IF o.call THEN Chosen("_callable")
    ELSE IF o.base \in {"tuple", "list"} THEN Chosen("_sequence")
    ELSE IF o.base = "dict" THEN Chosen("_dict")
    ELSE IF o.base = "set" THEN Chosen("_set")
    ELSE Chosen("_const")

\* compile(schema) is called for an object with no cache entry
InitClassify ==
    /\ heap = << >>
    /\ root = 0
    /\ nodes = << >>
    /\ caches = << >>
    /\ stack = << >>
    /\ out = [kind |-> "running", node |-> 0]
    /\ ndisp = << >>
    /\ \E o \in Objects : call = [done |-> FALSE, schema |-> o]
    /\ peer = NoPeer

\* "real work starts here"
Classify ==
    /\ "schema" \in DOMAIN call
    /\ ~call.done
    /\ call' = [call EXCEPT !.done = TRUE] @@ [chosen |-> classify(call.schema)]
    /\ UNCHANGED <<heap, root, nodes, caches, stack, out, ndisp, peer>>

NextClassify == Classify

SpecClassify == InitClassify /\ [][NextClassify]_vars

(***************************************************************************)
(* The compiled graph: the nodes a node refers to, a _deferred node to the *)
(* node its cache holds for its key, if any.                               *)
(***************************************************************************)
Range(f) == { f[x] : x \in DOMAIN f }

Children(n) ==
    IF n <= 0 THEN {}
    ELSE LET node == nodes[n]
         IN  CASE node.k \in {"_union", "_intersect"} -> Range(node.schemas)
               [] node.k \in {"_complement", "_lax", "_strict", "_set_label", "_set_name",
                              "_filter", "_set"} -> {node.schema}
               [] node.k = "_ifthen" ->
                     {node.if_schema, node.then_schema, node.else_schema} \ {0}
               [] node.k = "_cond" ->
                     UNION { {node.conditions[i][1], node.conditions[i][2]} :
                             i \in 1..Len(node.conditions) }
               [] node.k = "_fields" -> { node.d[i].node : i \in 1..Len(node.d) }
               [] node.k = "_sequence" -> (Range(node.schema) \cup {node.fill}) \ {0}
               [] node.k = "_dict" ->
                     Range(node.other_keys) \cup Range(node.schema)
                     \cup Range(node.schema_other)
               [] node.k = "_deferred" ->
                     IF __contains__(caches[node.collection], node.key)
                     THEN {__getitem__(caches[node.collection], node.key)}
                     ELSE {}
               [] OTHER -> {}

RECURSIVE ReachNodes(_)
ReachNodes(S) ==
    LET T == S \cup UNION { Children(n) : n \in S }
    IN  IF T = S THEN S ELSE ReachNodes(T)

\* the _deferred node n can delegate: its cache holds a finished node for its key
Resolved(n) ==
    /\ __contains__(caches[nodes[n].collection], nodes[n].key)
    /\ ~IsDeferred(nodes, __getitem__(caches[nodes[n].collection], nodes[n].key))

(***************************************************************************)
(* The claims.                                                             *)
(***************************************************************************)

\* C1: compile(schema) terminates for every finite schema graph, self-
\* referential ones included: it ends with a validator node or with
\* SchemaError, never with the interpreter giving up on the nesting of the
\* compile() calls.
C1_CompileTerminates == out.kind \in {"running", "node", "SchemaError"}

\* C2: after a top-level compile() has returned, every _deferred node
\* reachable in the returned graph has its key in its cache, mapped to a
\* finished (not _deferred) node.
C2_DeferredResolved ==
    out.kind = "node" =>
        \A n \in ReachNodes({out.node}) : IsDeferred(nodes, n) => Resolved(n)

\* C3: during one top-level compile() the dispatch of compile ("real work
\* starts here") is executed at most once per description object.
C3_DispatchedOnce == \A i \in DOMAIN ndisp : ndisp[i] <= 1

(***************************************************************************)
(* Claims about validate(): call holds the call made and its results.      *)
(***************************************************************************)
Accepted == call.message.raised = "" /\ call.message.msg = ""
Rejected == call.message.raised = "" /\ call.message.msg # ""

\* the text t occurs in the text s
HasSub(s, t) == \E i \in 0..(Len(s) - Len(t)) : SubSeq(s, i + 1, i + Len(t)) = t

Has(v, key) == Contains(v.ks, StrV(key))
Get(v, key) == v.vs[CHOOSE i \in 1..Len(v.ks) : v.ks[i] = StrV(key)]
Single(key, v) == DictV(<< StrV(key) >>, << v >>)
StrList(xs) == ListV([i \in 1..Len(xs) |-> StrV(xs[i])])

RECURSIVE NestsA(_)
\* {} or {"a": {"a": ... {}}}
NestsA(v) == v = EmptyDict \/ (v.t = "dict" /\ v.ks = << StrV("a") >> /\ NestsA(v.vs[1]))

RECURSIVE StraysAtB(_)
\* {"a": {"a": ... {"b": {}}}}: keys "a" down to one key "b" that holds {}
StraysAtB(v) ==
    /\ v.t = "dict"
    /\ Len(v.ks) = 1
    /\ \/ v.ks[1] = StrV("b") /\ v.vs[1] = EmptyDict
       \/ v.ks[1] = StrV("a") /\ StraysAtB(v.vs[1])

RECURSIVE PathOfB(_, _)
\* the path label of that key "b" below the label name
PathOfB(v, name) ==
    IF v.ks[1] = StrV("b") THEN name \o "['b']" ELSE PathOfB(v.vs[1], name \o "['a']")

\* C4: with A = {"a?": A}, and with the self-reference made through
\* intersect(A) or union(B, A) where B = {}, validation accepts {} nested
\* under "a" to any depth, and in strict mode rejects a value that strays at
\* one key "b" somewhere down the chain with a message that names the path
\* of that key as not in the schema.
C4_SelfReference ==
    (call.done /\ Schema(heap, root) \in {SelfDict, SelfIntersect, SelfUnion}) =>
        /\ NestsA(call.object_) => Accepted /\ call.ret.raised = ""
        /\ (StraysAtB(call.object_) /\ call.strict) =>
              /\ Rejected
              /\ HasSub(call.message.msg,
                        PathOfB(call.object_, call.name) \o " is not in the schema")
              /\ call.ret.raised = "ValidationError"

C4_Witness ==
    /\ call.done
    /\ Schema(heap, root) = SelfUnion
    /\ call.object_ = Single("a", Single("a", Single("b", EmptyDict)))
    /\ call.strict
    /\ HasSub(call.message.msg, "object['a']['a']['b'] is not in the schema")

RECURSIVE Alternates(_, _)
\* {key: {other: {key: ... None}}}
Alternates(v, key) ==
    /\ v.t = "dict"
    /\ v.ks = << StrV(key) >>
    /\ v.vs[1] = NoneV \/ Alternates(v.vs[1], IF key = "a" THEN "b" ELSE "a")

RECURSIVE IsPerson(_)
IsPerson(v) ==
    /\ v.t = "dict"
    /\ Has(v, "name") /\ Has(v, "father") /\ Has(v, "mother") /\ Len(v.ks) = 3
    /\ Get(v, "name").t = "str"
    /\ Get(v, "father") = Unknown \/ IsPerson(Get(v, "father"))
    /\ Get(v, "mother") = Unknown \/ IsPerson(Get(v, "mother"))

\* C5: with a["b"] = union(b, None) and b["a"] = union(a, None), a value
\* nested under single keys is accepted exactly when its keys alternate
\* between the two schemas, starting with the key of the root, and it ends
\* in None: {"b": {"a": {"b": None}}} is accepted with a as root and
\* rejected with b as root.  The person schema accepts exactly the values
\* that are persons all the way down.
C5_MutualRecursion ==
    call.done =>
        /\ (heap = MutualHeap /\ call.object_ \in Chains(MaxNest)) =>
              /\ call.message.raised = ""
              /\ Accepted <=> Alternates(call.object_, IF root = 1 THEN "b" ELSE "a")
        /\ (heap = Person.heap /\ call.object_ \in People) =>
              /\ call.message.raised = ""
              /\ Accepted <=> IsPerson(call.object_)

C5_Witness ==
    /\ call.done
    /\ heap = MutualHeap
    /\ root = 1
    /\ call.object_ = Single("b", Single("a", Single("b", NoneV)))
    /\ Accepted

\* C6: validate raises ValidationError with the message exactly when
\* _validate returns a non-empty message and returns None when it returns
\* the empty one; _validate gives what the node compiled from the schema
\* gives when it is invoked with the same name, strict flag and subs.
C6_ValidateRaises ==
    call.done =>
        LET message == _validate(heap, root, call.object_, call.name, call.strict,
                                 call.subs, call.rev)
        IN  /\ message = call.message
            /\ message.raised = "" =>
                  /\ message.msg # "" =>
                        call.ret = [raised |-> "ValidationError", msg |-> message.msg]
                  /\ message.msg = "" => call.ret = [raised |-> "", msg |-> "None"]
                  /\ call.ret.raised = "ValidationError" <=> message.msg # ""

C6_Witness ==
    /\ call.done
    /\ call.name = "arg"
    /\ ~call.strict
    /\ Rejected
    /\ call.ret = [raised |-> "ValidationError", msg |-> call.message.msg]

\* the first key of the dict v that is none of the texts in S; 0 if none
FirstKeyOutside(v, S) ==
    IF \E i \in 1..Len(v.ks) : v.ks[i] \notin S
    THEN CHOOSE i \in 1..Len(v.ks) :
            v.ks[i] \notin S /\ \A j \in 1..(i - 1) : v.ks[j] \in S
    ELSE 0

\* C7: a dict that lacks a required constant key of a dict schema fails in
\* both modes with "<name>[<key>] is missing", and no present key has been
\* examined when that is reported.  Against {"a?": 1, "b": 2}, that key is
\* "b"; with "b" present the dict is accepted exactly when "b" holds 2, "a"
\* (if present) holds 1 and, in strict mode only, there is no other key; in
\* strict mode a key other than "a" and "b" in an otherwise good dict is
\* reported as not in the schema.
C7_DictStrictness ==
    /\ (call.done /\ heap[root].k = "dict" /\ call.object_.t = "dict") =>
          LET items == heap[root].items
              missing == { heap[items[j].key].val : j \in
                             { j \in 1..Len(items) :
                                 /\ heap[items[j].key].k = "const"
                                 /\ ~KeyOf(heap, items[j].key).optional
                                 /\ ~Contains(call.object_.ks, heap[items[j].key].val) } }
          IN  missing # {} =>
                /\ call.message.msg
                      \in { KeyName(call.name, k) \o " is missing" : k \in missing }
                /\ Len(call.message.log) = 1
    /\ (call.done /\ Schema(heap, root) = StrictDict /\ call.object_.t = "dict") =>
        LET v == call.object_
            good == /\ Get(v, "b") = IntV(2)
                    /\ Has(v, "a") => Get(v, "a") = IntV(1)
            i == FirstKeyOutside(v, {StrV("a"), StrV("b")})
        IN  IF ~Has(v, "b")
            THEN /\ call.message.msg = call.name \o "['b'] is missing"
                 /\ Len(call.message.log) = 1
                 /\ call.ret.raised = "ValidationError"
            ELSE /\ Accepted <=> (good /\ (call.strict => i = 0))
                 /\ (good /\ call.strict /\ i # 0) =>
                       call.message.msg
                           = KeyName(call.name, v.ks[i]) \o " is not in the schema"

\* {"a": 3, "c": 3}: the required key is missing and the present keys are bad
C7_Witness ==
    /\ call.done
    /\ Schema(heap, root) = StrictDict
    /\ call.object_ = DictV(<< StrV("a"), StrV("c") >>, << IntV(3), IntV(3) >>)
    /\ ~call.strict
    /\ call.message.msg = "object['b'] is missing"

\* the dict descriptions whose values are constants
FlatSchemas == {StrictDict, ConstAndPattern, TwoPatterns}

\* the item of a dict description covers the key k of the object: the
\* item's key is the constant k (its "?" dropped) or a pattern matching k
Covers(it, k) ==
    LET kd == heap[it.key]
    IN  IF kd.k = "const"
        THEN k = Desc(heap, KeyOf(heap, it.key).key).val
        ELSE kd.k = "regex" /\ k.t = "str" /\ k.sv \in kd.matches

\* C8: a dict that holds the required keys is accepted in strict mode
\* exactly when each of its keys k with value v has an item of the schema
\* that covers k and whose sub-schema accepts v: the constant key k, or,
\* failing that, any pattern key that matches k.  In non-strict mode the
\* keys that no item covers are passed over, and the same holds of the
\* other keys.
C8_KeyMatching ==
    (call.done /\ Schema(heap, root) \in FlatSchemas /\ call.object_.t = "dict") =>
        LET v == call.object_
            items == heap[root].items
            Items == { items[j] : j \in 1..Len(items) }
            required == { it \in Items :
                            heap[it.key].k = "const" /\ ~KeyOf(heap, it.key).optional }
            KeyAccepted(i) ==
                \E it \in Items : Covers(it, v.ks[i]) /\ v.vs[i] = heap[it.val].val
            Uncovered(i) == \A it \in Items : ~Covers(it, v.ks[i])
        IN  (\A it \in required : Contains(v.ks, heap[it.key].val)) =>
                (Accepted <=>
                    \A i \in 1..Len(v.ks) :
                        KeyAccepted(i) \/ (~call.strict /\ Uncovered(i)))

\* {"a": 2} against {"a": 1, regex("a"): 2}: the constant key's sub-schema
\* refuses 2, the pattern key's accepts it
C8_Witness ==
    /\ call.done
    /\ Schema(heap, root) = ConstAndPattern
    /\ call.object_ = Single("a", IntV(2))
    /\ call.strict
    /\ Accepted

\* the descriptions of SeqHeap without "...": ["a", "b"], ("a", "b"), and
\* ["a", ..., "b"], where "..." is not last and is dropped
FixedForms == {3, 4, 8}

\* C9: a sequence description of N elements without a trailing "..."
\* refuses an object that is not of its sequence type; an object longer than
\* N fails in strict mode with "<name>[N] is not in the schema" and is
\* validated on its first N elements in non-strict mode; a shorter one fails
\* in both modes with "<name>[<its length>] is missing"; otherwise the
\* result is the message of the first element that fails, and no later
\* element has been validated.
C9_FixedSequence ==
    (call.done /\ heap = SeqHeap /\ root \in FixedForms) =>
        LET v == call.object_
            elems == SelectSeq(heap[root].elems, LAMBDA e : e # Ellipsis)
            N == Len(elems)
            expected == [i \in 1..N |-> heap[elems[i]].val]
            bad == { i \in 1..N : v.items[i] # expected[i] }
            first == CHOOSE i \in bad : \A j \in bad : i <= j
        IN  IF v.t # heap[root].k THEN Rejected
            ELSE IF Len(v.items) > N /\ call.strict
            THEN call.message.msg = Index(call.name, N) \o " is not in the schema"
            ELSE IF Len(v.items) < N
            THEN call.message.msg = Index(call.name, Len(v.items)) \o " is missing"
            ELSE IF bad = {} THEN Accepted
            ELSE /\ call.message.msg
                        = Index(call.name, first - 1) \o " (value:" \o repr(v.items[first])
                          \o ") is not equal to " \o repr(expected[first])
                 /\ \A j \in 1..Len(call.message.log) :
                        \A i \in (first + 1)..N :
                            call.message.log[j].name # Index(call.name, i - 1)

\* ["b", "a", "a"] against ["a", "b"] in non-strict mode: one element too
\* many, both elements of the schema fail, the first one is reported
C9_Witness ==
    /\ call.done
    /\ heap = SeqHeap
    /\ root = 3
    /\ call.object_ = StrList(<< "b", "a", "a" >>)
    /\ ~call.strict
    /\ call.message.msg = "object[0] (value:'b') is not equal to 'a'"

AllAre(xs, x) == \A i \in 1..Len(xs) : xs[i] = x

\* C10 as claimed: ["a", "b", ...] accepts ["a", "b"] and
\* ["a", "b", "a", "a"] and rejects ["a"]; ["a", ...] accepts any content
\* after "a"; [...] accepts a list of any content and length.
C10_AsClaimed ==
    (call.done /\ heap = SeqHeap /\ call.object_.t = "list") =>
        LET xs == call.object_.items
        IN  /\ (root = 5 /\ call.object_ = StrList(<< "a", "b" >>)) => Accepted
            /\ (root = 5 /\ call.object_ = StrList(<< "a", "b", "a", "a" >>)) => Accepted
            /\ (root = 5 /\ call.object_ = StrList(<< "a" >>)) => Rejected
            /\ (root = 6 /\ Len(xs) > 0 /\ xs[1] = StrV("a")) => Accepted
            /\ root = 7 => Accepted

\* C10: the element before a trailing "..." is the schema of every further
\* element, which may be absent: ["a", "b", ...] accepts exactly the lists
\* "a" followed by any number of "b", none included; ["a", ...] accepts
\* exactly the lists whose elements all are "a", the empty one included;
\* [...] accepts every list; in both modes.
C10_Ellipsis ==
    (call.done /\ heap = SeqHeap /\ root \in {5, 6, 7}) =>
        LET v == call.object_
            xs == v.items
        IN  Accepted <=>
                /\ v.t = "list"
                /\ root = 5 =>
                      Len(xs) >= 1 /\ xs[1] = StrV("a") /\ AllAre(Tail(xs), StrV("b"))
                /\ root = 6 => AllAre(xs, StrV("a"))

C10_Witness ==
    /\ call.done
    /\ heap = SeqHeap
    /\ root = 5
    /\ call.object_ = StrList(<< "a", "b", "a", "a" >>)
    /\ call.message.msg = "object[2] (value:'a') is not equal to 'b'"

\* the message of a constant that refuses the object
NotEqual(name, object_, v) ==
    name \o " (value:" \o _c(object_) \o ") is not equal to " \o repr(v)

\* the nodes of the __validate__ calls made, in order
Visited == [j \in 1..Len(call.message.log) |-> call.message.log[j].node]

\* C11: a union tries its sub-schemas left to right and returns "" as soon
\* as one accepts, without trying the later ones; if all refuse, it
\* returns their messages, in order, joined by " and ".  union(2, 3)
\* accepts 2 and 3 and refuses anything else with both messages;
\* {"a?": 1, "b": union(2, 3)} refuses {"b": 4} likewise.
C11_Union ==
    /\ (call.done /\ Schema(heap, root) = Union23) =>
          LET u == nodes[out.node]
              v == call.object_
          IN  /\ v = IntV(2) => Accepted /\ Visited = << out.node, u.schemas[1] >>
              /\ v = IntV(3) =>
                    Accepted /\ Visited = << out.node, u.schemas[1], u.schemas[2] >>
              /\ v \notin {IntV(2), IntV(3)} =>
                    /\ call.message.msg
                          = NotEqual(call.name, v, IntV(2)) \o " and "
                            \o NotEqual(call.name, v, IntV(3))
                    /\ Visited = << out.node, u.schemas[1], u.schemas[2] >>
    /\ (call.done /\ Schema(heap, root) = UnionDict /\ call.object_.t = "dict"
        /\ call.object_.ks = << StrV("b") >>) =>
          LET v == call.object_.vs[1]
              name_ == call.name \o "['b']"
          IN  IF v \in {IntV(2), IntV(3)} THEN Accepted
              ELSE call.message.msg
                      = NotEqual(name_, v, IntV(2)) \o " and " \o NotEqual(name_, v, IntV(3))

C11_Witness ==
    /\ call.done
    /\ Schema(heap, root) = Union23
    /\ call.object_ = IntV(4)
    /\ call.message.msg
          = "object (value:4) is not equal to 2 and object (value:4) is not equal to 3"

\* C12: an intersect tries its sub-schemas left to right and returns the
\* message of the first one that refuses the object, that message alone,
\* and tries no later sub-schema; it returns "" exactly when every
\* sub-schema accepts.  Against intersect(union(2, 3), union(3, 4)) only 3
\* is accepted, 4 fails with the message of union(2, 3) and union(3, 4) is
\* not tried, 2 fails with the message of union(3, 4).
C12_Intersect ==
    (call.done /\ Schema(heap, root) = Intersect234) =>
        LET i == nodes[out.node]
            v == call.object_
            Both(a, b) == NotEqual(call.name, v, IntV(a)) \o " and "
                          \o NotEqual(call.name, v, IntV(b))
        IN  /\ Accepted <=> v = IntV(3)
            /\ v = IntV(2) => call.message.msg = Both(3, 4)
            /\ v \notin {IntV(2), IntV(3)} =>
                  /\ call.message.msg = Both(2, 3)
                  /\ \A j \in 1..Len(Visited) : Visited[j] # i.schemas[2]
            /\ v \in {IntV(2), IntV(3)} =>
                  \E j \in 1..Len(Visited) : Visited[j] = i.schemas[2]

C12_Witness ==
    /\ call.done
    /\ Schema(heap, root) = Intersect234
    /\ call.object_ = IntV(4)
    /\ call.message.msg
          = "object (value:4) is not equal to 2 and object (value:4) is not equal to 3"
    /\ Len(call.message.log) = 4


\* the value that reaches the labelled node of LabelHeap and the name it has
\* there: the object itself, or the value at key 1 of the object
Labelled ==
    /\ call.done /\ out.kind = "node" /\ heap = LabelHeap
    /\ root = 8 => (call.object_.t = "dict" /\ call.object_.ks = << IntV(1) >>)
LabelledObject == IF root = 1 THEN call.object_ ELSE call.object_.vs[1]
LabelledName == IF root = 1 THEN call.name ELSE KeyName(call.name, IntV(1))
CommonLabels == (DOMAIN call.subs) \cap {"x", "y"}

\* the outcome of validating the labelled value against the schema s with
\* the given strictness, by a compile of its own
Against(s, strict_) ==
    LET r == _validate(heap, s, LabelledObject, LabelledName, strict_, call.subs, call.rev)
    IN  [raised |-> r.raised, msg |-> r.msg]
Outcome == [raised |-> call.message.raised, msg |-> call.message.msg]

\* C13: a node with the labels {"x", "y"} over the schema "a", under a
\* substitution map m: if m has neither "x" nor "y", the value is validated
\* against "a"; if m has exactly one of them, the value is validated
\* against compile(m[that name]) in strict mode, whatever the strictness of
\* the call; if m has both, ValidationError is raised, by __validate__ and
\* by validate, and no message is returned.
C13_Labels ==
    Labelled =>
        /\ CommonLabels = {} => Outcome = Against(2, call.strict)
        /\ Cardinality(CommonLabels) = 1 =>
              Outcome = Against(call.subs[CHOOSE l \in CommonLabels : TRUE], TRUE)
        /\ Cardinality(CommonLabels) = 2 =>
              /\ call.message.raised = "ValidationError"
              /\ call.ret.raised = "ValidationError"

\* {1: set_label("a", "x", "y")} validates {1: {1: "a"}} in lax mode with
\* m = {"x": {"a?": 1}}: the value {1: "a"} fits {"a?": 1} in lax mode, and
\* is refused because the substitute is applied in strict mode.
C13_Witness ==
    /\ Labelled /\ root = 8 /\ ~call.strict
    /\ call.subs = ("x" :> 4)
    /\ call.object_ = DictV(<< IntV(1) >>, << DictV(<< IntV(1) >>, << StrV("a") >>) >>)
    /\ Rejected
    /\ Against(4, FALSE) = [raised |-> "", msg |-> ""]

\* C14: once compile has returned a validator node, no validation of any
\* value under any substitution map raises SchemaError, neither from
\* __validate__ nor from validate.  (Violated: the schema a substitution map
\* names is compiled during the validation, line 362, and list[int] makes
\* that compile raise SchemaError, lines 970 and 1557-1558.)
C14_NoSchemaErrorInValidation ==
    (call.done /\ out.kind = "node") =>
        (call.message.raised # "SchemaError" /\ call.ret.raised # "SchemaError")

\* both validators have been given the call
Twice == call.done /\ "again" \in DOMAIN call /\ out.kind = "node"

\* some dict of the schema has two or more pattern keys of which one at
\* least is compiled to a node of its own
SeveralPatternNodes ==
    \E n \in 1..Len(nodes) :
        /\ nodes[n].k = "_dict"
        /\ Len(nodes[n].other_keys) >= 2
        /\ \E i \in 1..Len(nodes[n].other_keys) : nodes[n].other_keys[i] > 0

C16_Snapshot ==
    (call.done /\ "after" \in DOMAIN call) =>
        /\ call.after.raised = call.message.raised
        /\ call.after.msg = call.message.msg

CachesOf(st) == { st[i].cache : i \in 1..Len(st) } \ {0}

\* both compiles have returned a node
BothDone ==
    /\ peer.id # 0 /\ Len(stack) = 0 /\ Len(peer.stack) = 0
    /\ out.kind = "node" /\ peer.out.kind = "node"

\* C18: of two top-level compile() calls that run interleaved in any way,
\* on the same description or on descriptions that share objects, each
\* works on caches of its own: no cache is held by calls of both, a step
\* changes only caches that the running call holds, and creates caches but
\* removes none; so each call builds as many nodes as it builds alone, and
\* both end as they end alone.
C18_OwnCache ==
    [][/\ CachesOf(stack') \cap CachesOf(peer'.stack) = {}
       /\ Len(caches') >= Len(caches)
       /\ \A c \in 1..Len(caches) : caches'[c] # caches[c] => c \in CachesOf(stack)
       /\ BothDone' =>
             \E m1 \in {compile(heap, root')}, m2 \in {compile(heap, peer'.root)} :
                 /\ Len(nodes') = Len(m1.nodes) + Len(m2.nodes)
                 /\ nodes'[out'.node].k = m1.nodes[m1.out.node].k
                 /\ nodes'[peer'.out.node].k = m2.nodes[m2.out.node].k]_vars

\* both calls compile a = {"a?": a} and are under way, in the compile of
\* the value a inside a, and the cache of each holds a _deferred node for a
C18_Witness ==
    /\ peer.id # 0 /\ root = 1 /\ peer.root = 1
    /\ Len(stack) > 1 /\ Len(peer.stack) > 1
    /\ \E c1 \in CachesOf(stack), c2 \in CachesOf(peer.stack) :
          /\ c1 # c2
          /\ __contains__(caches[c1], 1) /\ __contains__(caches[c2], 1)
          /\ IsDeferred(nodes, __getitem__(caches[c1], 1))
          /\ IsDeferred(nodes, __getitem__(caches[c2], 1))
          /\ __getitem__(caches[c1], 1) # __getitem__(caches[c2], 1)

Marker == "...[TRUNCATED]..."

\* the rendering of the value in the message "object (value:...) is not
\* equal to 'a'"
Rendering ==
    SubSeq(call.message.msg, Len("object (value:") + 1,
           Len(call.message.msg) - Len(") is not equal to 'a'"))

\* the text form of the value of the call, its last character, and whether
\* the value is a text
TextForm == str(call.object_)
LastChar == SubSeq(TextForm, Len(TextForm), Len(TextForm))
IsText == call.object_.t = "str"

\* the text s in quotes if the value is a text
Shown(s) == IF IsText THEN "'" \o s \o "'" ELSE s

\* C19: in the message of a refused value, the rendering of the value holds
\* the marker ...[TRUNCATED]... exactly when the text form of the value has
\* 120 characters or more; it is then the first 99 characters of the text
\* form and the marker, followed by the last character of the text form if
\* the value is not a text and that character is ], ) or }; a shorter text
\* form is rendered whole; the rendering of a text is in quotes.
C19_Truncation ==
    (call.done /\ heap = ConstA.heap /\ Rejected) =>
        /\ call.message.msg = NotEqual("object", call.object_, StrV("a"))
        /\ HasSub(Rendering, Marker) <=> Len(TextForm) >= 120
        /\ Len(TextForm) >= 120 =>
              Rendering = Shown(SubSeq(TextForm, 1, 99) \o Marker \o
                                (IF ~IsText /\ LastChar \in {"]", ")", "}"}
                                 THEN LastChar ELSE ""))
        /\ Len(TextForm) < 120 => Rendering = Shown(TextForm)
        /\ IsText => /\ SubSeq(Rendering, 1, 1) = "'"
                      /\ SubSeq(Rendering, Len(Rendering), Len(Rendering)) = "'"

\* a list of ten texts, whose text form has exactly 120 characters, is
\* rendered as its first 99 characters, the marker and ]
C19_Witness ==
    /\ call.done /\ heap = ConstA.heap /\ Rejected
    /\ call.object_ = ListV([i \in 1..10 |-> StrV("abcdefgh")])
    /\ Len(TextForm) = 120
    /\ Len(Rendering) = 99 + Len(Marker) + 1
    /\ SubSeq(Rendering, 100, Len(Rendering)) = "...[TRUNCATED]...]"

(***************************************************************************)
(* C20: a type handle produced by make_type compiles its schema once:      *)
(* every instance check after the first validates with the node that the   *)
(* first check compiled, none compiles another, and each check returns     *)
(* True exactly when validation with the handle's strict flag and          *)
(* substitutions yields the empty message.                                 *)
(***************************************************************************)
Checked == "handle" \in DOMAIN call /\ call.checks >= 1

C20_CompiledOnce ==
    Checked =>
        /\ call.node = call.first
        /\ call.valid =
               (_validate(call.heap, call.handle.schema, call.object_, "object",
                          call.handle.strict, call.handle.subs, FALSE).msg = ""
                /\ call.raised = "")

(***************************************************************************)
(* C21: the cache protocol of compile.  A compile() entered for a          *)
(* description whose cache entry is a _deferred placeholder returns that   *)
(* placeholder to its caller, builds and dispatches nothing, and leaves    *)
(* the entry marked as in use.  When the compile() of a description        *)
(* returns its finished node, the cache entry of the description holds     *)
(* that node if the placeholder was handed out during the compilation      *)
(* (the flag is set and the placeholder is held by a constructor or a      *)
(* node) and there is no entry otherwise.                                  *)
(***************************************************************************)
\* the innermost compile() call and the entry of its description
Entered == Top(M)
Entry == caches[Entered.cache][Entered.schema]

OnPlaceholder ==
    /\ At("enter")
    /\ Entered.cache # 0
    /\ __contains__(caches[Entered.cache], Entered.schema)
    /\ IsDeferred(nodes, Entry.node)

\* the node d was returned by a compile() call: a constructor that runs
\* holds it, or a finished node does
HandedOut(d) ==
    \/ \E i \in 1..Len(stack) : d \in Range(stack[i].done)
    \/ \E n \in 1..Len(nodes) : ~IsDeferred(nodes, n) /\ d \in Children(n)

\* in the next state the innermost call has returned r
ReturnedNode(r) ==
    /\ Len(stack') = Len(stack) - 1
    /\ IF Len(stack') = 0 THEN out' = [kind |-> "node", node |-> r]
       ELSE stack'[Len(stack')].done = Append(stack[Len(stack')].done, r)

C21_CacheProtocol ==
    [][/\ OnPlaceholder =>
            /\ ReturnedNode(Entry.node)
            /\ nodes' = nodes
            /\ ndisp' = ndisp
            /\ caches'[Entered.cache][Entered.schema] = [node |-> Entry.node, in_use |-> TRUE]
       /\ At("finish") =>
            /\ ReturnedNode(Entered.ret)
            /\ IsDeferred(nodes, Entry.node)
            /\ Entry.in_use = HandedOut(Entry.node)
            /\ IF Entry.in_use
               THEN caches'[Entered.cache][Entered.schema] =
                        [node |-> Entered.ret, in_use |-> FALSE]
               ELSE ~__contains__(caches'[Entered.cache], Entered.schema)]_vars

\* a compile has returned; one entry was kept with the finished node, the
\* entry of another placeholder was removed
C21_Witness ==
    /\ out.kind = "node"
    /\ \E c \in 1..Len(caches) : \E s \in DOMAIN caches[c] :
          ~IsDeferred(nodes, caches[c][s].node)
    /\ \E n \in 1..Len(nodes) :
          IsDeferred(nodes, n) /\ ~__contains__(caches[nodes[n].collection], nodes[n].key)

(***************************************************************************)
(* C22: a list or tuple schema that ends in "..." with k >= 1 element      *)
(* schemas before it has the last of them as the fill schema and the first *)
(* k-1 as positional ones.  A candidate of the schema's type is accepted   *)
(* iff it has at least k-1 elements, its first k-1 elements match          *)
(* positionally and every later element matches the fill schema; a shorter *)
(* candidate fails with its own length as the missing index; strictness    *)
(* does not limit the length.  ["a", "b", "c", ...] accepts ["a", "b"],    *)
(* ["a", "b", "c", "d", ...] rejects ["a", "b"], ["a", ...] accepts [] and *)
(* ["a", "a"] and rejects ["a", "b"].                                      *)
(***************************************************************************)
\* the constants before the "..." of the description d
Before(d) == [i \in 1..(Len(d.elems) - 1) |-> heap[d.elems[i]].val]

C22_EllipsisForm ==
    (call.done /\ heap = EllipsisHeap /\ call.object_.t = heap[root].k) =>
        LET e == Before(heap[root])
            k == Len(e)
            xs == call.object_.items
        IN  /\ Accepted <=>
                  /\ Len(xs) >= k - 1
                  /\ \A i \in 1..(k - 1) : xs[i] = e[i]
                  /\ \A i \in k..Len(xs) : xs[i] = e[k]
            /\ Len(xs) < k - 1 =>
                  call.message.msg = Index(call.name, Len(xs)) \o " is missing"
            /\ (root = 5 /\ xs = << StrV("a"), StrV("b") >>) => Accepted
            /\ (root = 6 /\ xs = << StrV("a"), StrV("b") >>) => Rejected
            /\ (root = 7 /\ xs \in {<< >>, << StrV("a"), StrV("a") >>}) => Accepted
            /\ (root = 7 /\ xs = << StrV("a"), StrV("b") >>) => Rejected

\* ["a", "b", "c", ...] has accepted ["a", "b", "c", "c"] in strict mode
C22_Witness ==
    /\ call.done
    /\ heap = EllipsisHeap
    /\ root = 5
    /\ call.strict
    /\ call.object_ = StrList(<< "a", "b", "c", "c" >>)
    /\ Accepted

(***************************************************************************)
(* C23: cond evaluates its (condition, consequence) pairs in order and     *)
(* returns the result of the consequence of the first condition that       *)
(* accepts the value, evaluating no later pair, and returns success when   *)
(* no condition accepts.  ifthen returns the result of the then-schema     *)
(* when the if-schema accepts, otherwise the result of the else-schema     *)
(* whenever an else-schema was given to the constructor, and success only  *)
(* when none was given.                                                    *)
(***************************************************************************)
\* what the description s gives for the object of the call by itself
Alone(s) ==
    _validate(heap, s, call.object_, call.name, call.strict, call.subs, call.rev).msg

\* the first pair of args whose condition accepts the object, 0 if none
FirstPair(args) ==
    IF \E i \in 1..Len(args) : Alone(args[i][1]) = ""
    THEN CHOOSE i \in 1..Len(args) :
            Alone(args[i][1]) = "" /\ \A j \in 1..(i - 1) : Alone(args[j][1]) # ""
    ELSE 0

C23_Conditionals ==
    (call.done /\ heap = CondHeap) =>
        LET d == heap[root]
        IN  /\ d.k = "ifthen" =>
                  call.message.msg =
                      IF Alone(d.if_schema) = "" THEN Alone(d.then_schema)
                      ELSE IF d.else_schema # 0 THEN Alone(d.else_schema)
                      ELSE ""
            /\ d.k = "cond" =>
                  LET i == FirstPair(d.args)
                      pairs == nodes[out.node].conditions
                  IN  /\ call.message.msg = IF i = 0 THEN "" ELSE Alone(d.args[i][2])
                      /\ i # 0 => \A j \in (i + 1)..Len(pairs) :
                                      /\ ~Contains(Visited, pairs[j][1])
                                      /\ ~Contains(Visited, pairs[j][2])

(***************************************************************************)
(* C24: compile classifies a description by the first rule that applies,   *)
(* in this order: an instance of a compiled node is returned itself; a     *)
(* class that is a compiled-node type is instantiated without arguments    *)
(* (SchemaError if that fails); an object with __validate__ is wrapped; an *)
(* object with __compile__ is delegated to; a type becomes a _type node    *)
(* and a parametrized generic raises SchemaError; a callable becomes a     *)
(* _callable node; a list or tuple a _sequence node; a dict a _dict node;  *)
(* a set a _set node; anything else a _const node.  No combinator wrapper  *)
(* is classified as a callable, a sequence or a constant.                  *)
(***************************************************************************)
\* the rules in the order of the claim: whether the rule applies to o, and
\* what it gives
Rules(o) ==
    << [applies |-> o.inst, gives |-> "schema"],
       [applies |-> o.cls, gives |-> "schema()"],
       [applies |-> o.val, gives |-> "_validate_schema"],
       [applies |-> o.comp, gives |-> "__compile__"],
       [applies |-> o.type \/ o.alias, gives |-> "_type"],
       [applies |-> o.call, gives |-> "_callable"],
       [applies |-> o.base \in {"list", "tuple"}, gives |-> "_sequence"],
       [applies |-> o.base = "dict", gives |-> "_dict"],
       [applies |-> o.base = "set", gives |-> "_set"],
       [applies |-> TRUE, gives |-> "_const"] >>

FirstRule(o) ==
    CHOOSE i \in 1..Len(Rules(o)) :
        Rules(o)[i].applies /\ \A j \in 1..(i - 1) : ~Rules(o)[j].applies

Combinators ==
    {"union", "intersect", "complement", "lax", "strict", "set_label", "set_name",
     "ifthen", "cond", "fields", "filter"}

C24_Classification ==
    ("chosen" \in DOMAIN call) =>
        LET o == call.schema
            r == Rules(o)[FirstRule(o)]
        IN  /\ call.chosen.branch = r.gives
            /\ call.chosen.raised = "SchemaError" <=>
                   \/ r.gives = "schema()" /\ ~o.ctor
                   \/ r.gives = "_type" /\ o.alias
            /\ o \in { Shape(k) : k \in Combinators } =>
                   call.chosen.branch \notin {"_callable", "_sequence", "_const"}

\* a callable object that has __compile__ was delegated to
C24_Witness ==
    /\ "chosen" \in DOMAIN call
    /\ call.schema.comp
    /\ call.schema.call
    /\ ~call.schema.val
    /\ call.chosen = [branch |-> "__compile__", raised |-> ""]

(***************************************************************************)
(* C25: the strict mode under which a node validates is the one set by the *)
(* nearest enclosing lax or strict wrapper, or the caller's flag when      *)
(* there is none: a _lax node hands False to its child, a _strict node     *)
(* True, and every other node hands the flag it received to its children   *)
(* unchanged.  So lax(S), for S without wrappers inside, reports no key or  *)
(* position as not in the schema, and strict(S) refuses them also when the *)
(* caller passes strict=False.                                             *)
(***************************************************************************)
Log == call.message.log

\* the call that made the call j of the log: the latest one before j that
\* is one level less deep
Caller(j) ==
    CHOOSE p \in 1..(j - 1) :
        /\ Log[p].depth = Log[j].depth - 1
        /\ \A q \in (p + 1)..(j - 1) : Log[q].depth >= Log[j].depth

\* the flag that the node of the call p hands to its children
HandsOn(p) ==
    LET kind == Node(heap, nodes, Log[p].node).k
    IN  IF kind = "_lax" THEN FALSE ELSE IF kind = "_strict" THEN TRUE ELSE Log[p].strict

C25_StrictnessInForce ==
    (call.done /\ heap = StrictHeap) =>
        /\ Log[1].strict = call.strict
        /\ \A j \in 2..Len(Log) : Log[j].strict = HandsOn(Caller(j))
        /\ root \in (Len(Plain) + 1)..(2 * Len(Plain)) =>
               ~HasSub(call.message.msg, "is not in the schema")
        /\ (root = 2 * Len(Plain) + 3 /\ call.object_.t = "dict" /\ Has(call.object_, "b")) =>
               call.message.msg = KeyName(call.name, StrV("b")) \o " is not in the schema"

(***************************************************************************)
(* The failure message of a dict                                           *)
(***************************************************************************)
\* the dict descriptions with constant values
KeyedSchemas == FlatSchemas \cup {TypeKeys}

\* the items of the dict description at the root
RootItems == { heap[root].items[j] : j \in 1..Len(heap[root].items) }

IsConstItem(it) == heap[it.key].k = "const"

\* the item is tried for the i-th key of the object: its constant key is
\* that key, or its pattern key accepts it
Tried(it, i) ==
    LET k == call.object_.ks[i]
    IN  IF IsConstItem(it) THEN k = Desc(heap, KeyOf(heap, it.key).key).val
        ELSE _validate(heap, it.key, k, "key", call.strict, call.subs, call.rev).msg = ""

\* the message of the item's sub-schema for the value of the i-th key
Attempt(it, i) ==
    _validate(heap, it.val, call.object_.vs[i], KeyName(call.name, call.object_.ks[i]),
              call.strict, call.subs, call.rev).msg

Classified(i) == \E it \in RootItems : Tried(it, i) /\ Attempt(it, i) = ""

FailedOn(i, const) ==
    { it \in RootItems : IsConstItem(it) = const /\ Tried(it, i) /\ Attempt(it, i) # "" }

\* the orders in which the items of S can be listed
Orders(S) ==
    { s \in [1..Cardinality(S) -> S] : \A it \in S : \E j \in DOMAIN s : s[j] = it }

\* the messages that the key i may give: those of the failed attempts, the
\* constant key's first
Joined(i) ==
    { JoinStr([j \in 1..Len(a \o b) |-> Attempt((a \o b)[j], i)], " and ") :
        a \in Orders(FailedOn(i, TRUE)), b \in Orders(FailedOn(i, FALSE)) }

\* the key i ends the validation
Failing(i) ==
    ~Classified(i) /\ (FailedOn(i, TRUE) \cup FailedOn(i, FALSE) # {} \/ call.strict)

\* C26: when no classification of a present key succeeds and an attempt
\* gave a message (the constant key's sub-schema, or a pattern key that
\* accepted the key), the dict validator returns those messages joined by
\* " and ", the constant key's first, in strict and in non-strict mode
\* alike, and stops at this first failing key; "is not in the schema" is
\* returned only in strict mode and only when no attempt gave a message.
C26_DictMessage ==
    (call.done /\ Schema(heap, root) \in KeyedSchemas /\ call.object_.t = "dict"
       /\ ~HasSub(call.message.msg, " is missing")) =>
        LET n == Len(call.object_.ks)
            failing == { i \in 1..n : Failing(i) }
            i == CHOOSE i \in failing : \A j \in failing : i <= j
            attempts == FailedOn(i, TRUE) \cup FailedOn(i, FALSE)
        IN  /\ call.message.raised = ""
            /\ failing = {} => call.message.msg = ""
            /\ (failing # {} /\ attempts # {}) => call.message.msg \in Joined(i)
            /\ (failing # {} /\ attempts = {}) =>
                   /\ call.strict
                   /\ call.message.msg =
                          KeyName(call.name, call.object_.ks[i]) \o " is not in the schema"
            /\ HasSub(call.message.msg, " is not in the schema") =>
                   call.strict /\ failing # {} /\ attempts = {}

\* {"a": 3} against {"a": 1, regex("a"): 2} in non-strict mode: both
\* attempts fail and both messages are returned, the constant key's first
C26_Witness ==
    /\ call.done
    /\ Schema(heap, root) = ConstAndPattern
    /\ call.object_ = Single("a", IntV(3))
    /\ ~call.strict
    /\ call.message.msg = KeyName(call.name, StrV("a")) \o " (value:3) is not equal to 1 and "
                          \o KeyName(call.name, StrV("a")) \o " (value:3) is not equal to 2"

(***************************************************************************)
(* The outcome of a dict validation and the iteration orders               *)
(***************************************************************************)
\* the orders in which n things can be taken
KeyOrders(n) ==
    { p \in [1..n -> 1..n] : \A i \in 1..n : \E j \in 1..n : p[j] = i }

\* the dict v with its keys in the order p
Reordered(v, p) ==
    DictV([i \in 1..Len(v.ks) |-> v.ks[p[i]]], [i \in 1..Len(v.vs) |-> v.vs[p[i]]])

\* the validation of the call made again: the required keys iterated in
\* the order rev, the pattern keys in the order fresh, the object's keys in
\* the order p
Again(rev, fresh, p) ==
    validate_with(heap, [out |-> out, nodes |-> nodes, caches |-> caches],
                  Reordered(call.object_, p), call.name, call.strict, call.subs, rev,
                  fresh).message

Compiling(j) == stack[j].pc # "enter"

\* C28: within one top-level compile every built-in container and
\* combinator compiles its sub-schemas with the cache it was handed, so a
\* description that is still being compiled is met as a _deferred
\* placeholder by every compile call below it and is not compiled again.
C28_SameCache ==
    /\ \A j \in 2..Len(stack) : stack[j].cache = stack[j - 1].cache
    /\ \A i \in 1..Len(stack), j \in 1..Len(stack) :
          (i < j /\ Compiling(i) /\ Compiling(j)) => stack[i].schema # stack[j].schema

(***************************************************************************)
(* The location that a failure message names                               *)
(***************************************************************************)
StartsWith(s, t) == Len(s) >= Len(t) /\ SubSeq(s, 1, Len(t)) = t
Rest(s, t) == SubSeq(s, Len(t) + 1, Len(s))

\* the names of the filters of the schemas
FilterNames == {"f", "first"}

RECURSIVE BuiltFrom(_, _)
\* the text s starts with a location built from the path label P: P itself
\* (the suffixes of the descent follow it), or f(...) of such a location
\* for a filter f
BuiltFrom(s, P) ==
    \/ StartsWith(s, P)
    \/ \E f \in FilterNames :
          StartsWith(s, f \o "(") /\ BuiltFrom(Rest(s, f \o "("), P)

\* the message s names a location built from P
Located(s, P) ==
    \/ BuiltFrom(s, P)
    \/ \E f \in FilterNames :
          StartsWith(s, "Applying " \o f \o " to ")
              /\ BuiltFrom(Rest(s, "Applying " \o f \o " to "), P)

\* the messages that s joins with " and "
Parts(s) ==
    { Rest(s, SubSeq(s, 1, i + 5)) :
        i \in { j \in 0..(Len(s) - 5) : SubSeq(s, j + 1, j + 5) = " and " } } \cup {s}

\* C29: every failure message produced below a node validated under the
\* path label P names a location built from P, that is P followed by the
\* key, index, element or attribute suffixes of the descent; a failure of
\* the inner schema of a filter is reported under the name
\* <filter_name>(P), built from the path label of the caller.
C29_NamedFromPath ==
    (call.done /\ Rejected) =>
        /\ \A s \in Parts(call.message.msg) : Located(s, call.name)
        /\ (heap = FilterHeap /\ root \in {3, 4}
              /\ Apply("first", call.object_).raised = "") =>
               StartsWith(call.message.msg, "first(" \o call.name \o ")")

(***************************************************************************)
(* Termination of a validation                                             *)
(***************************************************************************)
\* C30: the validation of a finite value against a compiled schema graph
\* terminates, with a message or with ValidationError, for every schema
\* that refers to itself and that compile accepts, and for every
\* substitution map, also one whose substitute carries a label that is a
\* key of the map: the nesting of the __validate__ calls stays bounded.
C30_ValidateTerminates ==
    (call.done /\ out.kind = "node") =>
        call.message.raised # "RecursionError" /\ call.ret.raised # "RecursionError"

====
